---- MODULE Spec2Model ----
(***************************************************************************)
(* Data Model Builder (jschema.dev): the schema catalog, the connection    *)
(* rule extractor, the connection validator and the canvas state machine   *)
(* of DataModelBuilder.tsx.                                                *)
(*                                                                         *)
(* Strings that are paths are modelled as the sequence of their segments,  *)
(* i.e. as the value of  str.split('/') :  "v1/a.json" is <<"v1","a.json">>,*)
(* "/a.json" is <<"", "a.json">>, "./a.json" is <<".", "a.json">> and the  *)
(* empty string is <<"">>.  join('/') is the inverse.                      *)
(*                                                                         *)
(* The arrays nodes, edges and clipboard are modelled as bags (multisets): *)
(* the handlers only append to, filter and search them, so the order of    *)
(* the elements is dropped and their multiplicity is kept.                 *)
(***************************************************************************)
EXTENDS Integers, Sequences, FiniteSets, Bags, TLC

\* ------------------------------------------------------------------ bounds
MaxNodes == 3      \* instances on the canvas at one time
MaxEdges == 2      \* connections on the canvas at one time
MaxCount == 2      \* highest instance number a counter may reach
MaxStack == 6      \* call-stack frames available to a recursion
MaxPending == 2    \* onConnect calls that may be handled between two renders

\* codec sessions: the instances and connections of the graph handed to
\* exportToJson
MaxGraphNodes == 3

MaxGraphEdges == 3

\* storage sessions: the records of the stored snapshot, a counter left by an
\* earlier mount, and the generateInstanceId calls after the load
MaxStoredNodes == 2
MaxStoredEdges == 1
MaxStoredCount == 3
MaxIssued == 2

\* ------------------------------------------------------- sequence helpers
Last(s) == s[Len(s)]

Front(s) == SubSeq(s, 1, Len(s) - 1)

Range(s) == {s[i] : i \in 1..Len(s)}

\* Array.prototype.includes
Includes(s, x) == \E i \in 1..Len(s) : s[i] = x

\* [...new Set(arr)] : keeps the first occurrence of every element, in order
RECURSIVE Dedupe(_)
Dedupe(s) ==
    IF s = <<>> THEN <<>>
    ELSE LET f == Dedupe(Front(s))
         IN IF Includes(f, Last(s)) THEN f ELSE Append(f, Last(s))

\* --------------------------------------------------------------- $ref text
\* A $ref string "path#fragment": path is the text before the first '#'
\* (split on '/'), frag the rest.  An absent $ref has the empty path.
Ref(segs) == [path |-> segs, frag |-> ""]

RefFrag(segs, f) == [path |-> segs, frag |-> f]

NoRef == [path |-> <<>>, frag |-> ""]

\* truthiness of  x.$ref  (undefined and '' are falsy)
HasRef(r) == r.path # <<>> /\ ~(r.path = <<"">> /\ r.frag = "")

\* ---------------------------------------------------------- schema literals
NoProps == [x \in {} |-> NoRef]

PropDef(t, r, ir, pp) == [type |-> t, ref |-> r, itemsRef |-> ir, patternRefs |-> pp]

PString == PropDef("string", NoRef, NoRef, <<>>)

PRef(segs) == PropDef("", Ref(segs), NoRef, <<>>)

PArrayOf(segs) == PropDef("array", NoRef, Ref(segs), <<>>)

SubSchema(t, r, ir, props) == [type |-> t, ref |-> r, itemsRef |-> ir, properties |-> props]

Schema(t, props, req, allOf, ir, anyOf, oneOf) ==
    [type |-> t, ref |-> NoRef, properties |-> props, required |-> req,
     allOf |-> allOf, itemsRef |-> ir, anyOf |-> anyOf, oneOf |-> oneOf]

ObjectSchema(props, req) == Schema("object", props, req, <<>>, NoRef, <<>>, <<>>)

\* ------------------------------------------------------------- the catalog
UserPath == <<"v1", "user.schema.json">>

AddressPath == <<"v1", "address.schema.json">>

AddressListPath == <<"v1", "addressList.schema.json">>

ContactPath == <<"v1", "contact.schema.json">>

TagPath == <<"v1", "tag.schema.json">>

UserIdPath == <<"v1", "userId.schema.json">>

HolderPath == <<"v1", "holder.schema.json">>

LoopAPath == <<"v1", "loopA.schema.json">>

LoopBPath == <<"v1", "loopB.schema.json">>

SelfListPath == <<"v1", "selfList.schema.json">>

PersonPath == <<"v1", "person.schema.json">>

SimpleUserPath == <<"v2", "user.schema.json">>

CodePath == <<"v1", "code.schema.json">>

UserSchema ==
    ObjectSchema(
        [name    |-> PString,
         userId  |-> PRef(<<".", "userId.schema.json">>),
         address |-> PRef(<<".", "address.schema.json">>),
         friend  |-> PRef(<<"user.schema.json">>),
         friends |-> PArrayOf(<<".", "user.schema.json">>),
         tags    |-> PArrayOf(<<"schemas", "v1", "tag.schema.json">>),
         homes   |-> PRef(<<".", "addressList.schema.json">>),
         contact |-> PRef(<<".", "contact.schema.json">>),
         loop    |-> PRef(<<".", "loopA.schema.json">>)],
        {"name"})

AddressSchema == ObjectSchema([city |-> PString], {})

\* an array wrapper: a collection of addresses
AddressListSchema ==
    Schema("array", NoProps, {}, <<>>, Ref(<<".", "address.schema.json">>), <<>>, <<>>)

\* a union: anyOf a tag or an address
ContactSchema ==
    Schema("", NoProps, {}, <<>>, NoRef,
           <<Ref(<<".", "tag.schema.json">>), RefFrag(<<".", "address.schema.json">>, "#/x")>>,
           <<>>)

TagSchema == ObjectSchema([label |-> PString], {})

UserIdSchema == Schema("string", NoProps, {}, <<>>, NoRef, <<>>, <<>>)

HolderSchema ==
    ObjectSchema(
        [selfs |-> PRef(<<".", "selfList.schema.json">>),
         owner |-> PRef(<<"..", "v1", "user.schema.json">>)],
        {"owner"})

LoopASchema ==
    Schema("array", NoProps, {}, <<>>, Ref(<<".", "loopB.schema.json">>), <<>>, <<>>)

LoopBSchema ==
    Schema("array", NoProps, {}, <<>>, Ref(<<".", "loopA.schema.json">>), <<>>, <<>>)

SelfListSchema ==
    Schema("", NoProps, {},
           <<SubSchema("array", NoRef, Ref(<<"selfList.schema.json">>), NoProps)>>,
           NoRef, <<>>, <<>>)

\* a property definition that carries an explicit default
WithDefault(propDef, value) == [default |-> value] @@ propDef

\* properties of its own and properties that an allOf entry declares
PersonSchema ==
    Schema("object",
           [nick    |-> WithDefault(PString, "anon"),
            aliases |-> PropDef("array", NoRef, NoRef, <<>>),
            extra   |-> PropDef("object", NoRef, NoRef, <<>>)],
           {},
           <<SubSchema("object", NoRef, NoRef,
                       [email |-> PString,
                        home  |-> PRef(<<".", "address.schema.json">>)])>>,
           NoRef, <<>>, <<>>)

\* the user schema of a second directory: a name, an address, friends
SimpleUserSchema ==
    ObjectSchema(
        [name    |-> PString,
         address |-> PRef(<<"..", "v1", "address.schema.json">>),
         friends |-> PArrayOf(<<".", "user.schema.json">>)],
        {"name"})

\* a string whose file name does not tell that it is one
CodeSchema == Schema("string", NoProps, {}, <<>>, NoRef, <<>>, <<>>)

\* Object.keys(schemas), in insertion order
SchemaKeys ==
    <<UserPath, AddressPath, AddressListPath, ContactPath, TagPath,
      UserIdPath, HolderPath, LoopAPath, LoopBPath, SelfListPath, PersonPath,
      SimpleUserPath, CodePath>>

schemas ==
    (UserPath :> UserSchema) @@ (AddressPath :> AddressSchema) @@
    (AddressListPath :> AddressListSchema) @@ (ContactPath :> ContactSchema) @@
    (TagPath :> TagSchema) @@
    (UserIdPath :> UserIdSchema) @@ (HolderPath :> HolderSchema) @@
    (LoopAPath :> LoopASchema) @@ (LoopBPath :> LoopBSchema) @@
    (SelfListPath :> SelfListSchema) @@ (PersonPath :> PersonSchema) @@
    (SimpleUserPath :> SimpleUserSchema) @@ (CodePath :> CodeSchema)

\* Object.keys(schema.properties) of the catalog schemas, in declaration order
PropertyNames ==
    (UserPath :> <<"name", "userId", "address", "friend", "friends", "tags",
                   "homes", "contact", "loop">>) @@
    (AddressPath :> <<"city">>) @@
    (TagPath :> <<"label">>) @@
    (HolderPath :> <<"selfs", "owner">>) @@
    (PersonPath :> <<"nick", "aliases", "extra">>) @@
    (SimpleUserPath :> <<"name", "address", "friends">>) @@
    [p \in DOMAIN schemas |-> <<>>]

\* schemas[p] is defined
InCatalog(p) == p \in DOMAIN schemas

\* ------------------------------------------------------------ string tests
\* a.endsWith(b) for single segments.  The segment names of this model are
\* chosen so that none is a proper, non-empty suffix of another.
SegEndsWith(a, b) == a = b \/ b = ""

\* p.endsWith(q) for paths: q's segments close p, q's first segment being a
\* suffix of the segment of p it falls in
EndsWith(p, q) ==
    /\ Len(q) <= Len(p)
    /\ LET k == Len(p) - Len(q)
       IN /\ SegEndsWith(p[k + 1], q[1])
          /\ \A i \in 2..Len(q) : p[k + i] = q[i]

\* the file names of this model that end in '.json'
JsonFiles ==
    {"user.schema.json", "address.schema.json", "addressList.schema.json",
     "contact.schema.json", "tag.schema.json", "userId.schema.json", "holder.schema.json", "loopA.schema.json",
     "loopB.schema.json", "selfList.schema.json", "string.schema.json",
     "person.schema.json", "code.schema.json", "missing.schema.json"}

\* str.endsWith('.json')
EndsWithJson(segs) == Last(segs) \in JsonFiles

\* primitivePatterns of isPrimitiveSchemaPath, without the leading '/'
PrimitivePatternFiles ==
    {"string.schema.json", "integer.schema.json", "number.schema.json",
     "boolean.schema.json", "binary-flag.schema.json", "numeric-string.schema.json",
     "non-empty-string.schema.json", "positive-integer.schema.json",
     "short-code-string.schema.json", "datatype.schema.json",
     "datatype-enum.schema.json"}

\* the file names of this model whose lower-case form ends with one of the
\* singleFieldPatterns ('id.schema.json', 'name.schema.json', ...)
SingleFieldFiles == {"userId.schema.json"}

isPrimitiveSchemaPath(schemaPath) ==
    \/ \E i \in 2..(Len(schemaPath) - 1) : schemaPath[i] = "primitives"
    \/ \E i \in 2..Len(schemaPath) : schemaPath[i] \in PrimitivePatternFiles
    \/ (schemaPath # <<>> /\ Last(schemaPath) \in SingleFieldFiles)

PrimitiveTypes == {"string", "number", "integer", "boolean", "null"}

isPrimitiveSchema(schema) ==
    IF schema.type \in PrimitiveTypes THEN TRUE
    ELSE IF HasRef(schema.ref) THEN isPrimitiveSchemaPath(schema.ref.path)
    ELSE IF schema.allOf # <<>>
         THEN IF \E i \in 1..Len(schema.allOf) : HasRef(schema.allOf[i].itemsRef)
              THEN FALSE
              ELSE /\ \A i \in 1..Len(schema.allOf) : schema.allOf[i].properties = NoProps
                   /\ \A i \in 1..Len(schema.allOf) :
                        LET s == schema.allOf[i]
                        IN IF HasRef(s.ref) THEN isPrimitiveSchemaPath(s.ref.path)
                           ELSE IF s.type # "" THEN s.type \in PrimitiveTypes
                           ELSE TRUE
    ELSE FALSE

\* an isArraySchemaWithItems that does not look into allOf
isArrayWithDirectItems(schema) ==
    HasRef(schema.itemsRef)

isArraySchemaWithItems(schema) ==
    \/ (schema.type = "array" /\ HasRef(schema.itemsRef))
    \/ HasRef(schema.itemsRef)
    \/ \E i \in 1..Len(schema.allOf) : HasRef(schema.allOf[i].itemsRef)

\* ------------------------------------------------------------ path resolver
\* basePath.substring(0, basePath.lastIndexOf('/')), split on '/'
BaseDir(basePath) == Front(basePath)

\* the base directory is the empty string
BaseDirEmpty(basePath) == BaseDir(basePath) \in {<<>>, <<"">>}

\* parts.filter(p => p)
NonEmptyParts(parts) == SelectSeq(parts, LAMBDA x : x # "")

RECURSIVE ApplyParts(_, _)
ApplyParts(resultParts, relParts) ==
    IF relParts = <<>> THEN resultParts
    ELSE LET part == Head(relParts)
             next == IF part = ".."
                     THEN (IF resultParts = <<>> THEN <<>> ELSE Front(resultParts))
                     ELSE IF part # "." THEN Append(resultParts, part)
                     ELSE resultParts
         IN ApplyParts(next, Tail(relParts))

\* resultParts.join('/')
Join(parts) == IF parts = <<>> THEN <<"">> ELSE parts

resolveRelativePath(basePath, relativePath) ==
    Join(ApplyParts(NonEmptyParts(BaseDir(basePath)), NonEmptyParts(relativePath)))

\* refPath.startsWith('../') || refPath.startsWith('./')
IsRelative(refPath) == Len(refPath) >= 2 /\ refPath[1] \in {".", ".."}

\* the resolution every branch of processProperty applies to match[1]
ResolveMatch(schemaPath, refPath) ==
    IF IsRelative(refPath) THEN resolveRelativePath(schemaPath, refPath)
    ELSE IF Len(refPath) = 1
         THEN (IF BaseDirEmpty(schemaPath) THEN refPath
               ELSE BaseDir(schemaPath) \o refPath)
    ELSE refPath

\* resolveRefPath of the validator: ref.split('#')[0] resolved against basePath
resolveRefPath(ref, basePath) ==
    LET refPath == ref.path
    IN IF IsRelative(refPath)
       THEN Join(ApplyParts(NonEmptyParts(BaseDir(basePath)), NonEmptyParts(refPath)))
       ELSE IF Len(refPath) = 1
            THEN (IF BaseDirEmpty(basePath) THEN refPath
                  ELSE BaseDir(basePath) \o refPath)
       ELSE refPath

\* Object.keys(schemas).find(key => key.endsWith(p) || p.endsWith(key));
\* <<>> when no key matches
FindMatchingKey(p) ==
    LET hits == {i \in 1..Len(SchemaKeys) :
                    EndsWith(SchemaKeys[i], p) \/ EndsWith(p, SchemaKeys[i])}
    IN IF hits = {} THEN <<>>
       ELSE SchemaKeys[CHOOSE i \in hits : \A j \in hits : i <= j]

\* ----------------------------------------------------- connection rules
\* getSchemaProperties: schema.properties, then the properties of every allOf
\* entry, a later entry overriding an earlier one
RECURSIVE MergeAllOf(_, _)
MergeAllOf(properties, allOf) ==
    IF allOf = <<>> THEN properties
    ELSE MergeAllOf(Head(allOf).properties @@ properties, Tail(allOf))

getSchemaProperties(schema) == MergeAllOf(schema.properties, schema.allOf)

Rule(propName, target, card, req) ==
    [propertyPath |-> propName, targetSchemaPath |-> target,
     cardinality |-> card, required |-> req]

\* match && match[1] && match[1].endsWith('.json') for  ref.match(/^([^#]+)/)
RefMatches(ref) == HasRef(ref) /\ ref.path # <<"">> /\ EndsWithJson(ref.path)

\* processProperty, direct $ref branch
DirectRefRules(propName, propValue, schemaPath, withCatalog, req) ==
    IF ~RefMatches(propValue.ref) THEN {}
    ELSE LET refPath == ResolveMatch(schemaPath, propValue.ref.path)
         IN IF isPrimitiveSchemaPath(refPath) THEN {}
            ELSE LET key == IF ~withCatalog THEN <<>>
                            ELSE IF InCatalog(refPath) THEN refPath
                            ELSE FindMatchingKey(refPath)
                     target == IF key = <<>> THEN refPath ELSE key
                 IN IF key # <<>> /\ isPrimitiveSchema(schemas[key]) THEN {}
                    ELSE IF key # <<>> /\ isArraySchemaWithItems(schemas[key])
                         THEN {Rule(propName, target, "many", req)}
                    ELSE {Rule(propName, target, "one", req)}

\* processProperty, array-with-items branch
ArrayItemRules(propName, propValue, schemaPath, withCatalog, req) ==
    IF ~RefMatches(propValue.itemsRef) THEN {}
    ELSE LET refPath == ResolveMatch(schemaPath, propValue.itemsRef.path)
         IN IF isPrimitiveSchemaPath(refPath) THEN {}
            ELSE IF withCatalog /\ InCatalog(refPath) /\ isPrimitiveSchema(schemas[refPath])
                 THEN {}
            ELSE {Rule(propName, refPath, "many", req)}

\* processProperty, patternProperties branch: the first pattern that yields a
\* rule ends the loop
RECURSIVE PatternRules(_, _, _, _, _)
PatternRules(propName, patternRefs, schemaPath, withCatalog, req) ==
    IF patternRefs = <<>> THEN {}
    ELSE LET ref == Head(patternRefs)
             rest == PatternRules(propName, Tail(patternRefs), schemaPath, withCatalog, req)
         IN IF ~RefMatches(ref) THEN rest
            ELSE LET refPath == ResolveMatch(schemaPath, ref.path)
                 IN IF isPrimitiveSchemaPath(refPath) THEN rest
                    ELSE LET key == IF ~withCatalog THEN <<>>
                                    ELSE IF InCatalog(refPath) THEN refPath
                                    ELSE FindMatchingKey(refPath)
                         IN IF key # <<>> /\ isPrimitiveSchema(schemas[key]) THEN rest
                            ELSE {Rule(propName, IF key = <<>> THEN refPath ELSE key,
                                       "many", req)}

processProperty(propName, propValue, schemaPath, withCatalog, req) ==
    IF HasRef(propValue.ref)
    THEN DirectRefRules(propName, propValue, schemaPath, withCatalog, req)
    ELSE IF propValue.type = "array" /\ propValue.itemsRef # NoRef
         THEN ArrayItemRules(propName, propValue, schemaPath, withCatalog, req)
    ELSE IF propValue.type = "object" /\ propValue.patternRefs # <<>>
         THEN PatternRules(propName, propValue.patternRefs, schemaPath, withCatalog, req)
    ELSE {}

\* getSchemaConnectionRules(schema, schemaPath, schemas?): withCatalog tells
\* whether the third argument was passed
getSchemaConnectionRules(schema, schemaPath, withCatalog) ==
    LET properties == getSchemaProperties(schema)
    IN UNION {processProperty(propName, properties[propName], schemaPath, withCatalog,
                              propName \in schema.required) :
              propName \in DOMAIN properties}

\* rules.find(r => r.propertyPath === propertyPath), as the set of hits
FindRule(rules, propertyPath) == {r \in rules : r.propertyPath = propertyPath}

\* The catalog does not change during a session, so the rules of a catalog
\* schema are computed once per schema path and looked up afterwards.
CatalogRules ==
    [withCatalog \in BOOLEAN |->
        [schemaPath \in DOMAIN schemas |->
            getSchemaConnectionRules(schemas[schemaPath], schemaPath, withCatalog)]]

\* ------------------------------------------ validator (part_005 revision)
\* The validators pass schemas[schemaPath] as the schema, so for a path of the
\* catalog the rules are the ones computed for that path.
getConnectionRulesForSchema(schema, schemaPath) ==
    IF InCatalog(schemaPath)
    THEN CatalogRules[TRUE][schemaPath]
    ELSE getSchemaConnectionRules(schema, schemaPath, TRUE)

\* the outcome of a call that may exhaust the call stack: ok with its array,
\* or a RangeError thrown to the caller
Returned(paths) == [ok |-> TRUE, paths |-> paths]

StackOverflow == [ok |-> FALSE, paths |-> <<>>]

\* the $refs resolveTargetSchemaPath follows, in the order it reads them:
\* items.$ref, the items.$ref of allOf entries, anyOf refs, oneOf refs
FollowedRefs(schema) ==
    (IF HasRef(schema.itemsRef) THEN <<schema.itemsRef>> ELSE <<>>)
    \o SelectSeq([i \in 1..Len(schema.allOf) |-> schema.allOf[i].itemsRef], HasRef)
    \o SelectSeq(schema.anyOf, HasRef)
    \o SelectSeq(schema.oneOf, HasRef)

\* resolveTargetSchemaPath(schemaPath, schemas) entered with `depth` frames
\* already on the stack
RECURSIVE resolveTargetSchemaPathAt(_, _)
RECURSIVE FollowAll(_, _, _, _)
FollowAll(refs, actualPath, results, depth) ==
    IF refs = <<>> THEN Returned(results)
    ELSE LET itemsRef == resolveRefPath(Head(refs), actualPath)
             sub == resolveTargetSchemaPathAt(itemsRef, depth + 1)
         IN IF ~sub.ok THEN StackOverflow
            ELSE FollowAll(Tail(refs), actualPath,
                           Append(results, itemsRef) \o sub.paths, depth)

resolveTargetSchemaPathAt(schemaPath, depth) ==
    IF depth > MaxStack THEN StackOverflow
    ELSE LET actualPath == IF InCatalog(schemaPath) THEN schemaPath
                           ELSE FindMatchingKey(schemaPath)
         IN IF actualPath = <<>> THEN Returned(<<schemaPath>>)
            ELSE LET r == FollowAll(FollowedRefs(schemas[actualPath]), actualPath,
                                    <<actualPath>>, depth)
                 IN IF r.ok THEN Returned(Dedupe(r.paths)) ELSE StackOverflow

\* the target paths the rules of the catalog name, and the catalog keys
TargetPaths ==
    DOMAIN schemas \cup
    {r.targetSchemaPath : r \in UNION {CatalogRules[w][p] : w \in BOOLEAN, p \in DOMAIN schemas}}

\* the outcome of the outermost call, computed once per path of the catalog
ResolvedTargets == [p \in TargetPaths |-> resolveTargetSchemaPathAt(p, 1)]

resolveTargetSchemaPath(schemaPath) ==
    IF schemaPath \in TargetPaths THEN ResolvedTargets[schemaPath]
    ELSE resolveTargetSchemaPathAt(schemaPath, 1)

\* ValidationResult; threw marks an exception that left the function instead
Valid == [valid |-> TRUE, reason |-> "", threw |-> FALSE]

Invalid(reason) == [valid |-> FALSE, reason |-> reason, threw |-> FALSE]

Threw == [valid |-> FALSE, reason |-> "", threw |-> TRUE]

\* existingConnections.find(conn => conn.sourceId === s && conn.propertyPath === p)
HasConnectionOn(existingConnections, s, p) ==
    \E conn \in BagToSet(existingConnections) :
        /\ conn.sourceId = s
        /\ conn.propertyPath = p

\* a duplicate check that is applied to no connection
HasTripleOmitted(existingConnections, s, t, p) == FALSE

\* existingConnections.find(conn => conn.sourceId === s && conn.targetId === t &&
\* conn.propertyPath === p)
HasTriple(existingConnections, s, t, p) ==
    \E conn \in BagToSet(existingConnections) :
        /\ conn.sourceId = s
        /\ conn.targetId = t
        /\ conn.propertyPath = p

\* a self check that is applied to no proposal
IsSelfOmitted(sourceInstanceId, targetInstanceId) == FALSE

\* sourceInstanceId === targetInstanceId, the test of "Prevent connecting to self"
IsSelf(sourceInstanceId, targetInstanceId) == sourceInstanceId = targetInstanceId

validateConnection(sourceInstanceId, targetInstanceId, propertyPath, existingConnections, instances) ==
    IF sourceInstanceId \notin DOMAIN instances THEN Invalid("SourceInstanceNotFound")
    ELSE IF targetInstanceId \notin DOMAIN instances THEN Invalid("TargetInstanceNotFound")
    ELSE LET sourceInstance == instances[sourceInstanceId]
             targetInstance == instances[targetInstanceId]
         IN IF ~InCatalog(sourceInstance.schemaPath) THEN Invalid("SourceSchemaNotFound")
            ELSE LET rules == getConnectionRulesForSchema(
                                  schemas[sourceInstance.schemaPath],
                                  sourceInstance.schemaPath)
                     found == FindRule(rules, propertyPath)
                 IN IF found = {} THEN Invalid("NoRule")
                    ELSE LET rule == CHOOSE r \in found : TRUE
                             resolvedTargets == resolveTargetSchemaPath(rule.targetSchemaPath)
                         IN IF ~resolvedTargets.ok THEN Threw
                            ELSE IF ~Includes(resolvedTargets.paths, targetInstance.schemaPath)
                                 THEN Invalid("WrongTarget")
                            ELSE IF /\ rule.cardinality = "one"
                                    /\ HasConnectionOn(existingConnections,
                                                       sourceInstanceId, propertyPath)
                                 THEN Invalid("OneToOne")
                            ELSE IF IsSelf(sourceInstanceId, targetInstanceId)
                                 THEN Invalid("SelfLoop")
                            ELSE IF HasTriple(existingConnections, sourceInstanceId,
                                              targetInstanceId, propertyPath)
                                 THEN Invalid("Duplicate")
                            ELSE Valid

\* a forEach callback that pushes a target already connected by the triple
PushesConnectedTarget(instance, instanceId, sourceInstanceId, propertyPath, rule, resolvedTargets, existingConnections) ==
    /\ instanceId # sourceInstanceId
    /\ Includes(resolvedTargets, instance.schemaPath)

\* the callback of instances.forEach in getValidTargets: whether it pushes
\* instanceId to validTargets
PushesValidTarget(instance, instanceId, sourceInstanceId, propertyPath, rule, resolvedTargets, existingConnections) ==
    /\ instanceId # sourceInstanceId
    /\ Includes(resolvedTargets, instance.schemaPath)
    /\ (rule.cardinality = "many" =>
          ~HasTriple(existingConnections, sourceInstanceId, instanceId, propertyPath))

\* getValidTargets: the ids pushed to validTargets, or the thrown RangeError
getValidTargets(sourceInstanceId, propertyPath, instances, existingConnections) ==
    IF sourceInstanceId \notin DOMAIN instances THEN Returned({})
    ELSE LET sourceInstance == instances[sourceInstanceId]
         IN IF ~InCatalog(sourceInstance.schemaPath) THEN Returned({})
            ELSE LET rules == getConnectionRulesForSchema(
                                  schemas[sourceInstance.schemaPath],
                                  sourceInstance.schemaPath)
                     found == FindRule(rules, propertyPath)
                 IN IF found = {} THEN Returned({})
                    ELSE LET rule == CHOOSE r \in found : TRUE
                             resolvedTargets == resolveTargetSchemaPath(rule.targetSchemaPath)
                         IN IF ~resolvedTargets.ok THEN StackOverflow
                            ELSE IF /\ rule.cardinality = "one"
                                    /\ HasConnectionOn(existingConnections,
                                                       sourceInstanceId, propertyPath)
                                 THEN Returned({})
                            ELSE Returned(
                                   {instanceId \in DOMAIN instances :
                                      PushesValidTarget(instances[instanceId], instanceId,
                                                        sourceInstanceId, propertyPath, rule,
                                                        resolvedTargets.paths,
                                                        existingConnections)})

\* the rule loop of getValidSources for one source instance: whether the rule
\* lets sourceInstanceId be pushed to validSources
RuleAdmitsSource(rule, sourceInstanceId, targetInstanceId, targetSchemaPath, existingConnections) ==
    /\ Includes(resolveTargetSchemaPath(rule.targetSchemaPath).paths, targetSchemaPath)
    /\ IF rule.cardinality = "one"
       THEN ~HasConnectionOn(existingConnections, sourceInstanceId, rule.propertyPath)
       ELSE ~HasTriple(existingConnections, sourceInstanceId, targetInstanceId,
                       rule.propertyPath)

\* getValidSources: the ids pushed to validSources, or the RangeError that
\* resolveTargetSchemaPath throws for a rule of any other instance
getValidSources(targetInstanceId, instances, existingConnections) ==
    IF targetInstanceId \notin DOMAIN instances THEN Returned({})
    ELSE LET targetSchemaPath == instances[targetInstanceId].schemaPath
             others == {id \in DOMAIN instances :
                          id # targetInstanceId /\ InCatalog(instances[id].schemaPath)}
             rulesOf(id) == getConnectionRulesForSchema(schemas[instances[id].schemaPath],
                                                        instances[id].schemaPath)
         IN IF \E id \in others : \E rule \in rulesOf(id) :
                  ~resolveTargetSchemaPath(rule.targetSchemaPath).ok
            THEN StackOverflow
            ELSE Returned({id \in others :
                             \E rule \in rulesOf(id) :
                                 RuleAdmitsSource(rule, id, targetInstanceId,
                                                  targetSchemaPath, existingConnections)})

\* the rule loop of getConnectableProperties: whether the rule's property is
\* pushed to connectableProperties
RuleConnects(rule, sourceInstanceId, targetInstanceId, targetSchemaPath, existingConnections) ==
    /\ rule.targetSchemaPath = targetSchemaPath
    /\ IF rule.cardinality = "one"
       THEN ~HasConnectionOn(existingConnections, sourceInstanceId, rule.propertyPath)
       ELSE ~HasTriple(existingConnections, sourceInstanceId, targetInstanceId,
                       rule.propertyPath)

\* getConnectableProperties: the property paths pushed
getConnectableProperties(sourceInstanceId, targetInstanceId, instances, existingConnections) ==
    IF sourceInstanceId \notin DOMAIN instances \/ targetInstanceId \notin DOMAIN instances
    THEN {}
    ELSE IF sourceInstanceId = targetInstanceId THEN {}
    ELSE IF ~InCatalog(instances[sourceInstanceId].schemaPath) THEN {}
    ELSE {rule.propertyPath :
            rule \in {r \in getConnectionRulesForSchema(
                               schemas[instances[sourceInstanceId].schemaPath],
                               instances[sourceInstanceId].schemaPath) :
                        RuleConnects(r, sourceInstanceId, targetInstanceId,
                                     instances[targetInstanceId].schemaPath,
                                     existingConnections)}}

\* --------------------------- validator (connectionValidator.ts revision)
cv_getConnectionRulesForSchema(schema, schemaPath) ==
    IF InCatalog(schemaPath)
    THEN CatalogRules[FALSE][schemaPath]
    ELSE getSchemaConnectionRules(schema, schemaPath, FALSE)

cv_validateConnection(sourceInstanceId, targetInstanceId, propertyPath, existingConnections, instances) ==
    IF sourceInstanceId \notin DOMAIN instances THEN Invalid("SourceInstanceNotFound")
    ELSE IF targetInstanceId \notin DOMAIN instances THEN Invalid("TargetInstanceNotFound")
    ELSE LET sourceInstance == instances[sourceInstanceId]
             targetInstance == instances[targetInstanceId]
         IN IF ~InCatalog(sourceInstance.schemaPath) THEN Invalid("SourceSchemaNotFound")
            ELSE LET rules == cv_getConnectionRulesForSchema(
                                  schemas[sourceInstance.schemaPath],
                                  sourceInstance.schemaPath)
                     found == FindRule(rules, propertyPath)
                 IN IF found = {} THEN Invalid("NoRule")
                    ELSE LET rule == CHOOSE r \in found : TRUE
                         IN IF rule.targetSchemaPath # targetInstance.schemaPath
                            THEN Invalid("WrongTarget")
                            ELSE IF /\ rule.cardinality = "one"
                                    /\ HasConnectionOn(existingConnections,
                                                       sourceInstanceId, propertyPath)
                                 THEN Invalid("OneToOne")
                            ELSE IF IsSelf(sourceInstanceId, targetInstanceId)
                                 THEN Invalid("SelfLoop")
                            ELSE IF HasTriple(existingConnections, sourceInstanceId,
                                              targetInstanceId, propertyPath)
                                 THEN Invalid("Duplicate")
                            ELSE Valid

cv_getValidTargets(sourceInstanceId, propertyPath, instances, existingConnections) ==
    IF sourceInstanceId \notin DOMAIN instances THEN Returned({})
    ELSE LET sourceInstance == instances[sourceInstanceId]
         IN IF ~InCatalog(sourceInstance.schemaPath) THEN Returned({})
            ELSE LET rules == cv_getConnectionRulesForSchema(
                                  schemas[sourceInstance.schemaPath],
                                  sourceInstance.schemaPath)
                     found == FindRule(rules, propertyPath)
                 IN IF found = {} THEN Returned({})
                    ELSE LET rule == CHOOSE r \in found : TRUE
                         IN IF /\ rule.cardinality = "one"
                               /\ HasConnectionOn(existingConnections,
                                                  sourceInstanceId, propertyPath)
                            THEN Returned({})
                            ELSE Returned(
                                   {instanceId \in DOMAIN instances :
                                      /\ instanceId # sourceInstanceId
                                      /\ instances[instanceId].schemaPath = rule.targetSchemaPath
                                      /\ (rule.cardinality = "many" =>
                                            ~HasTriple(existingConnections, sourceInstanceId,
                                                       instanceId, propertyPath))})

cv_getValidSources(targetInstanceId, instances, existingConnections) ==
    IF targetInstanceId \notin DOMAIN instances THEN Returned({})
    ELSE LET targetSchemaPath == instances[targetInstanceId].schemaPath
             others == {id \in DOMAIN instances :
                          id # targetInstanceId /\ InCatalog(instances[id].schemaPath)}
             rulesOf(id) == cv_getConnectionRulesForSchema(schemas[instances[id].schemaPath],
                                                           instances[id].schemaPath)
         IN Returned({id \in others :
                        \E rule \in rulesOf(id) :
                            /\ rule.targetSchemaPath = targetSchemaPath
                            /\ IF rule.cardinality = "one"
                               THEN ~HasConnectionOn(existingConnections, id,
                                                     rule.propertyPath)
                               ELSE ~HasTriple(existingConnections, id, targetInstanceId,
                                               rule.propertyPath)})

cv_getConnectableProperties(sourceInstanceId, targetInstanceId, instances, existingConnections) ==
    IF sourceInstanceId \notin DOMAIN instances \/ targetInstanceId \notin DOMAIN instances
    THEN {}
    ELSE IF sourceInstanceId = targetInstanceId THEN {}
    ELSE IF ~InCatalog(instances[sourceInstanceId].schemaPath) THEN {}
    ELSE {rule.propertyPath :
            rule \in {r \in cv_getConnectionRulesForSchema(
                               schemas[instances[sourceInstanceId].schemaPath],
                               instances[sourceInstanceId].schemaPath) :
                        RuleConnects(r, sourceInstanceId, targetInstanceId,
                                     instances[targetInstanceId].schemaPath,
                                     existingConnections)}}

\* ------------------------------------------------- instance naming service
\* fileName.replace('.schema.json', '').replace('.json', '') for the file
\* names of the catalog
BaseName(fileName) ==
    CASE fileName = "user.schema.json" -> "user"
      [] fileName = "address.schema.json" -> "address"
      [] fileName = "addressList.schema.json" -> "addressList"
      [] fileName = "contact.schema.json" -> "contact"
      [] fileName = "tag.schema.json" -> "tag"
      [] fileName = "userId.schema.json" -> "userId"
      [] fileName = "holder.schema.json" -> "holder"
      [] fileName = "loopA.schema.json" -> "loopA"
      [] fileName = "loopB.schema.json" -> "loopB"
      [] fileName = "selfList.schema.json" -> "selfList"
      [] fileName = "person.schema.json" -> "person"
      [] fileName = "constructor.schema.json" -> "constructor"
      [] fileName = "code.schema.json" -> "code"
      [] OTHER -> fileName

\* a schema path outside the catalog whose base name is a property of
\* Object.prototype
ConstructorPath == <<"v1", "constructor.schema.json">>

\* the keys the counter map can hold in this model
BaseNames ==
    {BaseName(Last(SchemaKeys[i])) : i \in 1..Len(SchemaKeys)}
    \cup {BaseName(Last(ConstructorPath))}

\* the id `${baseName}-${newCount}`
InstanceId(baseName, n) == [base |-> baseName, n |-> n]

\* a generateInstanceId that does not store the new count
generateWithoutCount(counters, schemaPath) ==
    [id |-> InstanceId(BaseName(Last(schemaPath)), counters[BaseName(Last(schemaPath))] + 1),
     counters |-> counters]

\* generateInstanceId: the id returned and the counters it leaves
generateInstanceId(counters, schemaPath) ==
    LET baseName == BaseName(Last(schemaPath))
        newCount == counters[baseName] + 1
    IN [id |-> InstanceId(baseName, newCount),
        counters |-> [counters EXCEPT ![baseName] = newCount]]

\* resetInstanceCounters: instanceCounters.clear(); a missing entry reads as 0
resetInstanceCounters == [b \in BaseNames |-> 0]

\* ----------------------------------------------------------- canvas state
VARIABLES
    build,              \* which revision of the validator the canvas imports
    nodes,              \* useNodesState: the nodes {id, data.schemaPath}
    edges,              \* useEdgesState: the edges {source, target, sourceHandle}
    clipboard,          \* useState<Node[]>: data.schemaPath of the copied nodes
    instanceCounters,   \* builderTypes' module-level counter map
    instancesMap,       \* the useMemo value the current handlers close over
    dataConnections,    \* the useMemo value the current handlers close over
    pending,            \* onConnect calls handled since the last render
    exported,           \* the last exportToJson call: its options and the value
                        \* it returned
    imported,           \* the ImportResult the last importFromJson call returned
    stored,             \* localStorage's item under STORAGE_KEY
    loaded,             \* what the last loadBuilderState call returned, and the
                        \* ids generateInstanceId returned since
    ruleCall,           \* the arguments of a getSchemaConnectionRules call
    ruleResult          \* the rules the call returned

vars == <<build, nodes, edges, clipboard, instanceCounters, instancesMap,
          dataConnections, pending, exported, imported, stored, loaded,
          ruleCall, ruleResult>>

Builds == {"part_005", "connectionValidator.ts"}

\* exportToJson or importFromJson has not been called
NotCalled == [kind |-> "not called"]

\* localStorage.getItem(STORAGE_KEY) === null
NoItem == [kind |-> "no item"]

\* clearBuilderState: localStorage.removeItem(STORAGE_KEY)
clearBuilderState == NoItem

\* the schemas dragged from the palette in this model
DropPaths == {UserPath, AddressPath}

\* the source handles dragged in this model: a 'one' property, a 'many'
\* property, a property whose target schema is on a $ref cycle, and the
\* connection without a source handle
Handles == {"address", "friends", "loop", ""}

\* an id that names no node
GhostId == InstanceId("ghost", 1)

\* arr.filter(keep)
BagFilter(bag, kept) == [x \in BagToSet(bag) \cap kept |-> bag[x]]

\* [...arr, x]
BagAdd(bag, x) == bag (+) SetToBag({x})

NodeIds(nds) == {node.id : node \in BagToSet(nds)}

\* instancesMap = useMemo(...): map.set(node.id, {id, schemaPath, ...}) for
\* every node.  Nodes that share an id share its base name, hence their schema.
InstancesMapOf(nds) ==
    [id \in NodeIds(nds) |->
        [id |-> id,
         schemaPath |-> (CHOOSE node \in BagToSet(nds) : node.id = id).schemaPath]]

\* dataConnections = useMemo(...): edges.map(edge => ({sourceId, targetId,
\* propertyPath: edge.sourceHandle || ''}))
DataConnection(edge) ==
    [sourceId |-> edge.source, targetId |-> edge.target, propertyPath |-> edge.sourceHandle]

DataConnectionsOf(eds) ==
    LET conns == {DataConnection(edge) : edge \in BagToSet(eds)}
    IN [conn \in conns |->
          eds[[source |-> conn.sourceId, target |-> conn.targetId,
               sourceHandle |-> conn.propertyPath]]]

\* the re-render React runs after a handler changed state: the memo values are
\* recomputed and the handlers close over them
Rerender ==
    /\ instancesMap' = InstancesMapOf(nodes')
    /\ dataConnections' = DataConnectionsOf(edges')
    /\ pending' = 0

Init ==
    /\ build \in Builds
    /\ nodes = EmptyBag
    /\ edges = EmptyBag
    /\ clipboard = EmptyBag
    /\ instanceCounters = resetInstanceCounters
    /\ instancesMap = InstancesMapOf(EmptyBag)
    /\ dataConnections = DataConnectionsOf(EmptyBag)
    /\ pending = 0
    /\ exported = NotCalled
    /\ imported = NotCalled
    /\ stored = NoItem
    /\ loaded = NotCalled
    /\ ruleCall = NotCalled
    /\ ruleResult = NotCalled

\* the validator the canvas imports from '../utils/connectionValidator'
ImportedValidateConnection(s, t, p, conns, insts) ==
    IF build = "part_005" THEN validateConnection(s, t, p, conns, insts)
    ELSE cv_validateConnection(s, t, p, conns, insts)

\* the getValidTargets the canvas imports from '../utils/connectionValidator'
ImportedGetValidTargets(s, p, insts, conns) ==
    IF build = "part_005" THEN getValidTargets(s, p, insts, conns)
    ELSE cv_getValidTargets(s, p, insts, conns)

\* the getValidSources the canvas imports from '../utils/connectionValidator'
ImportedGetValidSources(t, insts, conns) ==
    IF build = "part_005" THEN getValidSources(t, insts, conns)
    ELSE cv_getValidSources(t, insts, conns)

\* the getConnectableProperties of '../utils/connectionValidator'
ImportedGetConnectableProperties(s, t, insts, conns) ==
    IF build = "part_005" THEN getConnectableProperties(s, t, insts, conns)
    ELSE cv_getConnectableProperties(s, t, insts, conns)

\* reactflow's addEdge: the edges unchanged when an edge with the same source,
\* target and handles exists, else edges.concat(edge)
addEdge(edge, eds) ==
    IF \E el \in BagToSet(eds) :
          /\ el.source = edge.source
          /\ el.target = edge.target
          /\ el.sourceHandle = edge.sourceHandle
    THEN eds
    ELSE BagAdd(eds, edge)

\* onDrop: a schema dragged from the palette becomes a node
onDrop(schemaPath) ==
    /\ InCatalog(schemaPath)
    /\ BagCardinality(nodes) < MaxNodes
    /\ LET g == generateInstanceId(instanceCounters, schemaPath)
       IN /\ g.id.n <= MaxCount
          /\ nodes' = BagAdd(nodes, [id |-> g.id, schemaPath |-> schemaPath])
          /\ instanceCounters' = g.counters
    /\ UNCHANGED <<ruleCall, ruleResult, stored, loaded, exported, imported, build, edges, clipboard>>

\* the node and edge state a handler leaves
Graph(nds, eds) == [nodes |-> nds, edges |-> eds]

\* an onConnect that adds the proposed edge without asking the validator
onConnectUnchecked(source, target, sourceHandle) ==
    IF sourceHandle = "" THEN Graph(nodes, edges)
    ELSE Graph(nodes, addEdge([source |-> source, target |-> target,
                               sourceHandle |-> sourceHandle], edges))

\* onConnect: the graph after the handler ran.  It calls setEdges with addEdge
\* when the validator accepted, and nothing else: the graph is untouched when
\* it returned early or the validator threw.
onConnectGraph(source, target, sourceHandle) ==
    IF sourceHandle = "" THEN Graph(nodes, edges)
    ELSE LET validationResult ==
                 ImportedValidateConnection(source, target, sourceHandle,
                                            dataConnections, instancesMap)
         IN IF ~validationResult.valid THEN Graph(nodes, edges)
            ELSE Graph(nodes, addEdge([source |-> source, target |-> target,
                                       sourceHandle |-> sourceHandle], edges))

onConnect(source, target, sourceHandle) ==
    /\ edges' = onConnectGraph(source, target, sourceHandle).edges
    /\ BagCardinality(edges') <= MaxEdges
    /\ UNCHANGED <<ruleCall, ruleResult, stored, loaded, exported, imported, build, nodes, clipboard, instanceCounters>>

\* a delete button that removes the node and leaves its connections
handleDeleteNodeOnly(instanceId) ==
    /\ nodes' = BagFilter(nodes, {node \in BagToSet(nodes) : node.id # instanceId})
    /\ UNCHANGED <<ruleCall, ruleResult, stored, loaded, exported, imported, build, edges, clipboard, instanceCounters>>

\* handleDeleteNode: the node's delete button
handleDeleteNode(instanceId) ==
    /\ nodes' = BagFilter(nodes, {node \in BagToSet(nodes) : node.id # instanceId})
    /\ edges' = BagFilter(edges, {edge \in BagToSet(edges) :
                                    edge.source # instanceId /\ edge.target # instanceId})
    /\ UNCHANGED <<ruleCall, ruleResult, stored, loaded, exported, imported, build, clipboard, instanceCounters>>

\* an edge's id `${source}-${sourceHandle}-${target}`
EdgeId(edge) == <<edge.source, edge.sourceHandle, edge.target>>

EdgeIds(eds) == {EdgeId(edge) : edge \in BagToSet(eds)}

\* handleKeyDown, Delete or Backspace with a selection: selectedNodeIds are
\* the ids of the selected nodes, selectedEdgeIds the ids of the selected edges
handleKeyDownDelete(selectedNodeIds, selectedEdgeIds) ==
    /\ selectedNodeIds # {} \/ selectedEdgeIds # {}
    /\ nodes' = BagFilter(nodes, {node \in BagToSet(nodes) : node.id \notin selectedNodeIds})
    /\ edges' = BagFilter(edges, {edge \in BagToSet(edges) :
                                    /\ EdgeId(edge) \notin selectedEdgeIds
                                    /\ edge.source \notin selectedNodeIds
                                    /\ edge.target \notin selectedNodeIds})
    /\ UNCHANGED <<ruleCall, ruleResult, stored, loaded, exported, imported, build, clipboard, instanceCounters>>

\* a Delete key that leaves the hovered edge where it is
KeepHoveredEdge(hoveredEdgeId) == edges

\* setEdges(eds => eds.filter(e => e.id !== hoveredEdgeId))
DeleteHoveredEdge(hoveredEdgeId) ==
    BagFilter(edges, {edge \in BagToSet(edges) : EdgeId(edge) # hoveredEdgeId})

\* handleKeyDown, Delete or Backspace with no selection and an edge hovered
handleKeyDownDeleteHovered(hoveredEdgeId) ==
    /\ edges' = DeleteHoveredEdge(hoveredEdgeId)
    /\ UNCHANGED <<ruleCall, ruleResult, stored, loaded, exported, imported, build, nodes, clipboard, instanceCounters>>

\* handleKeyDown, Ctrl+C with a selection.  A pasted node keeps only
\* data.schemaPath of the copied one (id and position are overwritten), so
\* that is what the clipboard holds here.
handleKeyDownCopy(selectedNodeIds) ==
    /\ selectedNodeIds # {}
    /\ clipboard' =
         LET selectedNodes == BagFilter(nodes, {node \in BagToSet(nodes) : node.id \in selectedNodeIds})
             paths == {node.schemaPath : node \in BagToSet(selectedNodes)}
         IN [schemaPath \in paths |->
               BagCardinality(BagFilter(selectedNodes, {node \in BagToSet(selectedNodes) : node.schemaPath = schemaPath}))]
    /\ UNCHANGED <<ruleCall, ruleResult, stored, loaded, exported, imported, build, nodes, edges, instanceCounters>>

\* clipboard.map(node => ({...node, id: generateInstanceId(nodeData.schemaPath)})):
\* the new nodes and the counters after the whole map
RECURSIVE PasteNodes(_, _, _)
PasteNodes(clip, counters, acc) ==
    IF clip = EmptyBag THEN [nodes |-> acc, counters |-> counters]
    ELSE LET schemaPath == CHOOSE x \in BagToSet(clip) : TRUE
             g == generateInstanceId(counters, schemaPath)
         IN PasteNodes(clip (-) SetToBag({schemaPath}), g.counters,
                       BagAdd(acc, [id |-> g.id, schemaPath |-> schemaPath]))

\* handleKeyDown, Ctrl+V with a non-empty clipboard
handleKeyDownPaste ==
    /\ clipboard # EmptyBag
    /\ BagCardinality(nodes) + BagCardinality(clipboard) <= MaxNodes
    /\ LET pasted == PasteNodes(clipboard, instanceCounters, EmptyBag)
       IN /\ \A b \in BaseNames : pasted.counters[b] <= MaxCount
          /\ nodes' = nodes (+) pasted.nodes
          /\ instanceCounters' = pasted.counters
    /\ UNCHANGED <<ruleCall, ruleResult, stored, loaded, exported, imported, build, edges, clipboard>>

\* handleClearCanvas (the button is disabled on an empty canvas)
handleClearCanvas ==
    /\ nodes # EmptyBag
    /\ nodes' = EmptyBag
    /\ edges' = EmptyBag
    /\ instanceCounters' = resetInstanceCounters
    /\ UNCHANGED <<ruleCall, ruleResult, loaded, exported, imported, build, clipboard>>
    /\ stored' = clearBuilderState

\* ------------------------------------------------------------ JSON values
\* A JSON value carries its kind.  An object also carries `ref`, the identity
\* of the JavaScript object (two objects may be equal and not the same), the
\* metadata keys _schemaPath and _instanceId when it has them, and its other
\* keys as `fields`.
JNull == [kind |-> "null"]

JString(s) == [kind |-> "string", value |-> s]

JNumber(n) == [kind |-> "number", number |-> n]

JBoolean(b) == [kind |-> "boolean", boolean |-> b]

JArray(items) == [kind |-> "array", items |-> items]

NoMeta == [schemaPath |-> <<>>, instanceId |-> <<>>]

Meta(schemaPath, instanceId) == [schemaPath |-> schemaPath, instanceId |-> instanceId]

JObject(ref, meta, fields) == [kind |-> "object", ref |-> ref, meta |-> meta, fields |-> fields]

\* {} : an object without keys
NoFields == [x \in {} |-> JNull]

\* the elements of a set as a sequence.  The model keeps nodes and edges as
\* bags, so the array order of nodes and of edges is fixed here.
RECURSIVE SetToSeq(_)
SetToSeq(S) ==
    IF S = {} THEN <<>>
    ELSE LET x == CHOOSE y \in S : TRUE
         IN <<x>> \o SetToSeq(S \ {x})

\* ------------------------------------------------------------------ export
\* ExportOptions; NoRoot stands for an absent rootInstanceId
NoRoot == [base |-> "", n |-> 0]

ExportOptions(includeMetadata, rootInstanceId) ==
    [includeMetadata |-> includeMetadata, rootInstanceId |-> rootInstanceId]

\* getDefaultValue(propertyDef)
getDefaultValue(propertyDef, ref) ==
    IF "default" \in DOMAIN propertyDef THEN JString(propertyDef.default)
    ELSE IF propertyDef.type = "array" THEN JArray(<<>>)
    ELSE IF propertyDef.type = "object" THEN JObject(ref, NoMeta, NoFields)
    ELSE JNull

\* findRootInstances: the ids of the nodes that are the target of no edge
findRootInstances(nds, eds) ==
    LET targetIds == {edge.target : edge \in BagToSet(eds)}
    IN SetToSeq({node.id : node \in BagToSet(nds)} \ targetIds)

\* getInstanceConnections, then the group of connectionsByProperty for
\* propertyPath
ConnectionsByProperty(nodeId, eds, propertyPath) ==
    SetToSeq({edge \in BagToSet(eds) :
                 edge.source = nodeId /\ edge.sourceHandle = propertyPath})

\* (node.data?.values) || {}
NodeValues(node) == IF "values" \in DOMAIN node THEN node.values ELSE NoFields

\* getSchemaConnectionRules(schema, schemaPath): the codec passes no catalog
CodecRules(schemaPath) == CatalogRules[FALSE][schemaPath]

\* buildObjectFromInstance returns the object or null; `visited` is the Set
\* the caller passed, as the call leaves it.  `ref` names the object built.
Built(result, visited) == [result |-> result, visited |-> visited]

RECURSIVE buildObjectFromInstance(_, _, _, _, _, _)
RECURSIVE BuildItems(_, _, _, _, _, _)
RECURSIVE BuildProperties(_, _, _, _, _, _, _, _)
RECURSIVE BuildProperty(_, _, _, _, _, _, _, _)
RECURSIVE NextProperty(_, _, _, _, _, _, _, _)
RECURSIVE BuildNode(_, _, _, _, _, _)

\* the one element of a set of one element
Only(S) == CHOOSE x \in S : TRUE

\* if (result !== null) push(result)
PushNonNull(result, items) == IF result # JNull THEN <<result>> \o items ELSE items

\* the loop over the connections of a 'many' property: every member is built
\* with new Set(visited), and a null member is not pushed
BuildItems(connections, nds, eds, visited, options, ref) ==
    IF connections = <<>> THEN <<>>
    ELSE PushNonNull(buildObjectFromInstance(Head(connections).target, nds, eds, visited,
                                             options, Append(ref, Len(connections))).result,
                     BuildItems(Tail(connections), nds, eds, visited, options, ref))

\* the value of one property and the visited Set after it: for a 'one' rule
\* the connected object, built with the Set of the caller, or null; for a
\* 'many' rule the array; for any other property the stored value or default
BuildProperty(propName, node, nds, eds, visited, options, here, rules) ==
    IF rules # {}
    THEN IF \A rule \in rules : rule.cardinality = "one"
         THEN IF ConnectionsByProperty(node.id, eds, propName) # <<>>
              THEN buildObjectFromInstance(
                       Head(ConnectionsByProperty(node.id, eds, propName)).target,
                       nds, eds, visited, options, here)
              ELSE Built(JNull, visited)
         ELSE Built(JArray(BuildItems(ConnectionsByProperty(node.id, eds, propName),
                                      nds, eds, visited, options, here)),
                    visited)
    ELSE Built(IF propName \in DOMAIN NodeValues(node)
               THEN NodeValues(node)[propName]
               ELSE getDefaultValue(schemas[node.schemaPath].properties[propName], here),
               visited)

\* result[propName] = the value built
SetProperty(acc, propName, built) ==
    [fields |-> (propName :> built.result) @@ acc.fields, visited |-> built.visited]

\* one turn of the loop over Object.entries(schema.properties): acc is the
\* result object's keys and the visited Set the turns before left
NextProperty(acc, propName, node, nds, eds, options, ref, connectionRules) ==
    SetProperty(acc, propName,
                BuildProperty(propName, node, nds, eds, acc.visited, options,
                              Append(ref, propName), FindRule(connectionRules, propName)))

\* the loop over Object.entries(schema.properties); a turn works on the keys
\* and the visited Set that the turn before it has left
BuildProperties(propNames, node, nds, eds, acc, options, ref, connectionRules) ==
    IF propNames = <<>> THEN acc
    ELSE Only({BuildProperties(Tail(propNames), node, nds, eds, next, options, ref,
                               connectionRules) :
               next \in {NextProperty(acc, Head(propNames), node, nds, eds, options, ref,
                                      connectionRules)}})

\* the object returned for a node, with the metadata keys if asked for
ObjectOf(acc, node, options, ref) ==
    Built(JObject(ref,
                  IF options.includeMetadata THEN Meta(node.schemaPath, node.id) ELSE NoMeta,
                  acc.fields),
          acc.visited)

\* the build of a node that was found: null without its schema, else the
\* object of its properties
BuildNode(node, nds, eds, seen, options, ref) ==
    IF ~InCatalog(node.schemaPath) THEN Built(JNull, seen)
    ELSE ObjectOf(BuildProperties(PropertyNames[node.schemaPath], node, nds, eds,
                                  [fields |-> NoFields, visited |-> seen], options, ref,
                                  CodecRules(node.schemaPath)),
                  node, options, ref)

\* a build that never finds its node among the visited ones, cut off by the
\* length of the path from the root
buildObjectWithoutGuard(nodeId, nds, eds, visited, options, ref) ==
    IF Len(ref) > 3 \/ \A n \in BagToSet(nds) : n.id # nodeId
    THEN Built(JNull, visited)
    ELSE BuildNode(CHOOSE n \in BagToSet(nds) : n.id = nodeId, nds, eds, visited,
                   options, ref)

buildObjectFromInstance(nodeId, nds, eds, visited, options, ref) ==
    IF nodeId \in visited THEN Built(JNull, visited)
    ELSE IF \A n \in BagToSet(nds) : n.id # nodeId
    THEN Built(JNull, visited \cup {nodeId})
    ELSE BuildNode(CHOOSE n \in BagToSet(nds) : n.id = nodeId, nds, eds,
                   visited \cup {nodeId}, options, ref)

\* `result || {}`
OrEmptyObject(result) == IF result # JNull THEN result ELSE JObject(<<1>>, NoMeta, NoFields)

\* a single object if there is one result, else the array
SingleOrArray(results) == IF Len(results) = 1 THEN results[1] ELSE JArray(results)

\* rootIds.length > 0 ? rootIds : nodes.map(n => n.id)
IdsToExport(rootIds, nds) ==
    IF Len(rootIds) > 0 THEN rootIds ELSE SetToSeq({node.id : node \in BagToSet(nds)})

\* the loop over idsToExport: every root is built with a new Set, and a null
\* result is not pushed
RECURSIVE BuildRoots(_, _, _, _, _)
BuildRoots(ids, nds, eds, options, index) ==
    IF ids = <<>> THEN <<>>
    ELSE PushNonNull(buildObjectFromInstance(Head(ids), nds, eds, {}, options,
                                             <<index>>).result,
                     BuildRoots(Tail(ids), nds, eds, options, index + 1))

\* an export that has nothing to build when no instance is a root
exportRootsOnly(nds, eds, options) ==
    IF options.rootInstanceId # NoRoot
    THEN OrEmptyObject(buildObjectFromInstance(options.rootInstanceId, nds, eds, {},
                                               options, <<1>>).result)
    ELSE SingleOrArray(BuildRoots(findRootInstances(nds, eds), nds, eds, options, 1))

exportToJson(nds, eds, options) ==
    IF BagCardinality(nds) = 0 THEN JArray(<<>>)
    ELSE IF options.rootInstanceId # NoRoot
    THEN OrEmptyObject(buildObjectFromInstance(options.rootInstanceId, nds, eds, {},
                                               options, <<1>>).result)
    ELSE SingleOrArray(BuildRoots(IdsToExport(findRootInstances(nds, eds), nds),
                                  nds, eds, options, 1))

\* ------------------------------------------------------------------ import
\* the names of the properties the allOf entries of a schema declare, in order
AllOfPropertyNames ==
    (PersonPath :> <<"email", "home">>) @@ [p \in DOMAIN schemas |-> <<>>]

\* the rules of getSchemaConnectionRules(schema, schemaPath) in the order of
\* the array it returns: the order of the entries of getSchemaProperties
RECURSIVE RulesInOrder(_, _)
RulesInOrder(propNames, rules) ==
    IF propNames = <<>> THEN <<>>
    ELSE LET found == FindRule(rules, Head(propNames))
         IN (IF found = {} THEN <<>> ELSE <<CHOOSE r \in found : TRUE>>)
            \o RulesInOrder(Tail(propNames), rules)

CodecRulesInOrder(schemaPath) ==
    RulesInOrder(PropertyNames[schemaPath] \o AllOfPropertyNames[schemaPath],
                 CodecRules(schemaPath))

\* findMatchingSchema: the loop over Object.entries(schemas).  The score
\* matching / max(dataKeys, schemaProps) is kept as the pair <<num, den>>.
NoMatch == [schemaPath |-> <<>>, num |-> 0, den |-> 1]

Max(a, b) == IF a >= b THEN a ELSE b

RECURSIVE BestMatch(_, _, _)
BestMatch(keys, dataKeys, bestMatch) ==
    IF keys = <<>> THEN bestMatch
    ELSE LET schemaPath == Head(keys)
             schemaObj == schemas[schemaPath]
             schemaProps == DOMAIN schemaObj.properties
             skip == \/ schemaObj.properties = NoProps
                     \/ schemaObj.type # "object"
                     \/ ~(schemaObj.required \subseteq dataKeys)
             num == Cardinality(dataKeys \cap schemaProps)
             den == Max(Cardinality(dataKeys), Cardinality(schemaProps))
             better == \/ bestMatch = NoMatch
                       \/ num * bestMatch.den > bestMatch.num * den
         IN BestMatch(Tail(keys), dataKeys,
                      IF ~skip /\ better
                      THEN [schemaPath |-> schemaPath, num |-> num, den |-> den]
                      ELSE bestMatch)

\* findMatchingSchema throws a TypeError: Object.keys(null), or `prop in data`
\* for a number, string or boolean as soon as a schema with properties and
\* type object has a required property
findMatchingSchemaThrows(data) ==
    \/ data.kind = "null"
    \/ /\ data.kind \in {"number", "string", "boolean"}
       /\ \E schemaPath \in Range(SchemaKeys) :
             /\ schemas[schemaPath].properties # NoProps
             /\ schemas[schemaPath].type = "object"
             /\ schemas[schemaPath].required # {}

\* the schema path matched, or <<>> for null (no match, or score < 0.5)
findMatchingSchema(data) ==
    LET bestMatch == BestMatch(SchemaKeys, DOMAIN data.fields, NoMatch)
    IN IF bestMatch # NoMatch /\ 2 * bestMatch.num >= bestMatch.den
       THEN bestMatch.schemaPath
       ELSE <<>>

\* the closure state of importFromJson: nodes, edges, errors, instanceMap, and
\* the counters of generateInstanceId
ImportState(nds, eds, errors, instanceMap, counters) ==
    [nodes |-> nds, edges |-> eds, errors |-> errors, instanceMap |-> instanceMap,
     counters |-> counters]

\* createEdge; the id `e-${parentId}-${target}-${propertyPath}` is the triple
createEdge(source, target, sourceHandle) ==
    [source |-> source, target |-> target, sourceHandle |-> sourceHandle]

\* the value is a non-array object
IsObject(value) == value.kind = "object"

\* no parent: createNodeFromData called for a root of the document
NoParent == [id |-> NoRoot, propertyPath |-> ""]

Parent(id, propertyPath) == [id |-> id, propertyPath |-> propertyPath]

RECURSIVE createNodeFromData(_, _, _)
RECURSIVE CreateItems(_, _, _)
RECURSIVE CreateNested(_, _, _, _)

\* the loop over the items of an array under a 'many' rule
CreateItems(st, items, parent) ==
    IF items = <<>> THEN st
    ELSE Only({CreateItems(next, Tail(items), parent) :
               next \in {IF Head(items).kind \in {"object", "array"}
                         THEN createNodeFromData(st, Head(items), parent)
                         ELSE st}})

\* the loop over connectionRules, "Process nested objects (connections)"
CreateNested(st, rules, dataObj, instanceId) ==
    IF rules = <<>> THEN st
    ELSE Only({CreateNested(next, Tail(rules), dataObj, instanceId) :
               next \in {IF rule.propertyPath \notin DOMAIN dataObj.fields THEN st
                         ELSE IF dataObj.fields[rule.propertyPath] = JNull THEN st
                         ELSE IF /\ rule.cardinality = "one"
                                 /\ IsObject(dataObj.fields[rule.propertyPath])
                         THEN createNodeFromData(st, dataObj.fields[rule.propertyPath],
                                                 Parent(instanceId, rule.propertyPath))
                         ELSE IF /\ rule.cardinality = "many"
                                 /\ dataObj.fields[rule.propertyPath].kind = "array"
                         THEN CreateItems(st, dataObj.fields[rule.propertyPath].items,
                                          Parent(instanceId, rule.propertyPath))
                         ELSE st :
                         rule \in {Head(rules)}}})

\* a createNodeFromData that stores every key of the object as a value
createNodeKeepingAllKeys(st, dataObj, parent) ==
    IF dataObj.kind # "object"
    THEN [st EXCEPT !.errors = st.errors + 1]
    ELSE IF dataObj.ref \in DOMAIN st.instanceMap
    THEN LET edge == createEdge(parent.id, st.instanceMap[dataObj.ref], parent.propertyPath)
         IN IF parent # NoParent /\ ~Includes(st.edges, edge)
            THEN [st EXCEPT !.edges = Append(st.edges, edge)]
            ELSE st
    ELSE LET schemaPath == findMatchingSchema(dataObj)
         IN IF schemaPath = <<>> THEN [st EXCEPT !.errors = st.errors + 1]
            ELSE LET g == generateInstanceId(st.counters, schemaPath)
                     node == [id |-> g.id, schemaPath |-> schemaPath,
                              values |-> dataObj.fields]
                     withNode ==
                       ImportState(Append(st.nodes, node),
                                   IF parent # NoParent
                                   THEN Append(st.edges,
                                               createEdge(parent.id, g.id,
                                                          parent.propertyPath))
                                   ELSE st.edges,
                                   st.errors,
                                   (dataObj.ref :> g.id) @@ st.instanceMap,
                                   g.counters)
                 IN CreateNested(withNode, CodecRulesInOrder(schemaPath), dataObj, g.id)

\* a createNodeFromData that never looks the object up in instanceMap
createNodeWithoutIdentity(st, dataObj, parent) ==
    IF dataObj.kind # "object"
    THEN [st EXCEPT !.errors = st.errors + 1]
    ELSE LET schemaPath == findMatchingSchema(dataObj)
         IN IF schemaPath = <<>> THEN [st EXCEPT !.errors = st.errors + 1]
            ELSE LET g == generateInstanceId(st.counters, schemaPath)
                     refProps == {r.propertyPath : r \in CodecRules(schemaPath)}
                     node == [id |-> g.id, schemaPath |-> schemaPath,
                              values |-> [key \in DOMAIN dataObj.fields \ refProps |->
                                             dataObj.fields[key]]]
                     withNode ==
                       ImportState(Append(st.nodes, node),
                                   IF parent # NoParent
                                   THEN Append(st.edges,
                                               createEdge(parent.id, g.id,
                                                          parent.propertyPath))
                                   ELSE st.edges,
                                   st.errors,
                                   (dataObj.ref :> g.id) @@ st.instanceMap,
                                   g.counters)
                 IN CreateNested(withNode, CodecRulesInOrder(schemaPath), dataObj, g.id)

\* a createNodeFromData that reports no error for an object without schema
createNodeSilently(st, dataObj, parent) ==
    IF dataObj.kind # "object" THEN st
    ELSE IF dataObj.ref \in DOMAIN st.instanceMap
    THEN LET edge == createEdge(parent.id, st.instanceMap[dataObj.ref], parent.propertyPath)
         IN IF parent # NoParent /\ ~Includes(st.edges, edge)
            THEN [st EXCEPT !.edges = Append(st.edges, edge)]
            ELSE st
    ELSE LET schemaPath == findMatchingSchema(dataObj)
         IN IF schemaPath = <<>> THEN st
            ELSE LET g == generateInstanceId(st.counters, schemaPath)
                     refProps == {r.propertyPath : r \in CodecRules(schemaPath)}
                     node == [id |-> g.id, schemaPath |-> schemaPath,
                              values |-> [key \in DOMAIN dataObj.fields \ refProps |->
                                             dataObj.fields[key]]]
                     withNode ==
                       ImportState(Append(st.nodes, node),
                                   IF parent # NoParent
                                   THEN Append(st.edges,
                                               createEdge(parent.id, g.id,
                                                          parent.propertyPath))
                                   ELSE st.edges,
                                   st.errors,
                                   (dataObj.ref :> g.id) @@ st.instanceMap,
                                   g.counters)
                 IN CreateNested(withNode, CodecRulesInOrder(schemaPath), dataObj, g.id)

\* the state with the node of the object, the edge from its parent, its
\* instanceMap entry and the counters that generateInstanceId left in g
WithNode(st, dataObj, parent, schemaPath, g) ==
    ImportState(Append(st.nodes,
                       [id |-> g.id, schemaPath |-> schemaPath,
                        values |-> [key \in DOMAIN dataObj.fields \
                                              {r.propertyPath : r \in CodecRules(schemaPath)} |->
                                       dataObj.fields[key]]]),
                IF parent # NoParent
                THEN Append(st.edges, createEdge(parent.id, g.id, parent.propertyPath))
                ELSE st.edges,
                st.errors,
                (dataObj.ref :> g.id) @@ st.instanceMap,
                g.counters)

\* createNodeFromData(dataObj, position, parentId?, propertyPath?): the
\* closure state it leaves
createNodeFromData(st, dataObj, parent) ==
    IF dataObj.kind # "object"
    THEN [st EXCEPT !.errors = st.errors + 1]
    ELSE IF dataObj.ref \in DOMAIN st.instanceMap
    THEN Only({IF parent # NoParent /\ ~Includes(st.edges, edge)
               THEN [st EXCEPT !.edges = Append(st.edges, edge)]
               ELSE st :
               edge \in {createEdge(parent.id, st.instanceMap[dataObj.ref],
                                    parent.propertyPath)}})
    ELSE Only({IF schemaPath = <<>> THEN [st EXCEPT !.errors = st.errors + 1]
               ELSE Only({CreateNested(WithNode(st, dataObj, parent, schemaPath, g),
                                       CodecRulesInOrder(schemaPath), dataObj, g.id) :
                          g \in {generateInstanceId(st.counters, schemaPath)}}) :
               schemaPath \in {findMatchingSchema(dataObj)}})

\* the loop over the items of a top-level array
RECURSIVE CreateRoots(_, _)
CreateRoots(st, items) ==
    IF items = <<>> THEN st
    ELSE Only({CreateRoots(next, Tail(items)) :
               next \in {IF IsObject(Head(items))
                         THEN createNodeFromData(st, Head(items), NoParent)
                         ELSE st}})

\* the ImportResult of the closure state, the counters that generateInstanceId
\* leaves in builderTypes, and the instanceMap of the call
ImportResult(st) ==
    [threw |-> FALSE, success |-> st.errors = 0, nodes |-> st.nodes, edges |-> st.edges,
     errors |-> st.errors, counters |-> st.counters, instanceMap |-> st.instanceMap]

\* the call left by an exception: there is no ImportResult, and nothing was
\* generated before the throw
Thrown(counters) ==
    [threw |-> TRUE, success |-> FALSE, nodes |-> <<>>, edges |-> <<>>, errors |-> 0,
     counters |-> counters, instanceMap |-> <<>>]

\* importFromJson(data, schemas)
importFromJson(data, counters) ==
    IF data.kind = "array"
    THEN ImportResult(CreateRoots(ImportState(<<>>, <<>>, 0, <<>>, counters), data.items))
    ELSE IF findMatchingSchemaThrows(data) THEN Thrown(counters)
    ELSE ImportResult(createNodeFromData(ImportState(<<>>, <<>>, 0, <<>>, counters), data,
                                         NoParent))

\* -------------------------------------------------------- user operations
\* Each operation is one browser event: React runs the handler and re-renders
\* before the next event is dispatched.

\* the subsets of S with at most one element
UpToOne(S) == {{}} \cup {{x} : x \in S}

\* the (source, target) pairs reactflow proposes: a handle of one node on the
\* canvas dragged to a handle of a node on the canvas
Proposals == NodeIds(nodes) \X NodeIds(nodes)

Drop == \E schemaPath \in DropPaths : onDrop(schemaPath) /\ Rerender

Connect ==
    \E st \in Proposals, sourceHandle \in Handles :
        onConnect(st[1], st[2], sourceHandle) /\ Rerender

DeleteNode == \E instanceId \in NodeIds(nodes) : handleDeleteNode(instanceId) /\ Rerender

KeyDelete ==
    \E selectedNodeIds \in UpToOne(NodeIds(nodes)),
       selectedEdgeIds \in UpToOne(EdgeIds(edges)) :
        handleKeyDownDelete(selectedNodeIds, selectedEdgeIds) /\ Rerender

KeyDeleteHovered ==
    \E hoveredEdgeId \in EdgeIds(edges) :
        handleKeyDownDeleteHovered(hoveredEdgeId) /\ Rerender

KeyCopy ==
    \E selectedNodeIds \in UpToOne(NodeIds(nodes)) :
        handleKeyDownCopy(selectedNodeIds) /\ Rerender

KeyPaste == handleKeyDownPaste /\ Rerender

ClearCanvas == handleClearCanvas /\ Rerender

Next ==
    \/ Drop
    \/ Connect
    \/ DeleteNode
    \/ KeyDelete
    \/ KeyDeleteHovered
    \/ KeyCopy
    \/ KeyPaste
    \/ ClearCanvas

Spec == Init /\ [][Next]_vars

\* ------------------------------------------- handlers between two renders
\* onConnect is a useCallback over the memo values of the last render, and it
\* applies its edge with a functional update on the latest edge state.  When
\* it is called again before React has re-rendered, it validates against the
\* same memo values.

\* the handler has run and React has not rendered yet
NotRendered ==
    /\ pending < MaxPending
    /\ pending' = pending + 1
    /\ UNCHANGED <<instancesMap, dataConnections>>

ConnectBatched ==
    \E st \in Proposals, sourceHandle \in Handles :
        /\ onConnect(st[1], st[2], sourceHandle)
        /\ \/ Rerender
           \/ NotRendered

Render ==
    /\ pending > 0
    /\ UNCHANGED <<ruleCall, ruleResult, stored, loaded, exported, imported, build, nodes, edges, clipboard, instanceCounters>>
    /\ Rerender

NextBatched ==
    \/ Drop
    \/ ConnectBatched
    \/ DeleteNode
    \/ KeyDelete
    \/ KeyDeleteHovered
    \/ KeyCopy
    \/ KeyPaste
    \/ ClearCanvas
    \/ Render

SpecBatched == Init /\ [][NextBatched]_vars

\* ---------------------------------------------------------- codec sessions
\* exportToJson and importFromJson are functions of their arguments.  A codec
\* session starts from a graph that validated operations can build and calls
\* them: exportToJson on the graph, importFromJson on a document or on the
\* value exportToJson returned.

\* node k of a schema, with or without a stored value for its first property
GraphNode(schemaPath, k, filled) ==
    LET id == InstanceId(BaseName(Last(schemaPath)), k)
    IN [id |-> id, schemaPath |-> schemaPath,
        values |-> IF filled
                   THEN (PropertyNames[schemaPath][1] :> JString("Al"))
                   ELSE NoFields]

\* the node sets of the sessions: users of one of the two user schemas,
\* addresses and at most one person, numbered from 1 as generateInstanceId
\* numbers them
GraphNodeSets ==
    {{GraphNode(userPath, k, filled) : k \in 1..u}
       \cup {GraphNode(AddressPath, k, filled) : k \in 1..a}
       \cup {GraphNode(PersonPath, k, filled) : k \in 1..p} :
     userPath \in {UserPath, SimpleUserPath},
     u \in 0..MaxGraphNodes, a \in 0..MaxGraphNodes, p \in 0..1, filled \in BOOLEAN}

\* the connections the validator of connectionValidator.ts accepts between
\* the nodes of a set
GraphEdgesOf(nds) ==
    {createEdge(s.id, t.id, p) :
       s \in nds, t \in nds, p \in {"address", "friend", "friends", "home"}}

GraphValid(nds, eds) ==
    LET insts == InstancesMapOf(SetToBag(nds))
    IN /\ Cardinality(nds) <= MaxGraphNodes
       /\ \A edge \in eds :
             cv_validateConnection(edge.source, edge.target, edge.sourceHandle,
                                   DataConnectionsOf(SetToBag(eds \ {edge})), insts).valid

\* the subsets of S of at most n elements
RECURSIVE SubsetsUpTo(_, _)
SubsetsUpTo(S, n) ==
    IF n = 0 THEN {{}}
    ELSE LET smaller == SubsetsUpTo(S, n - 1)
         IN smaller \cup {T \cup {x} : T \in smaller, x \in S}

\* the counters generateInstanceId holds after it named the nodes
CountersOf(nds) ==
    [b \in BaseNames |-> Cardinality({node \in nds : node.id.base = b})]

InitCodec ==
    /\ build = "connectionValidator.ts"
    /\ \E nds \in GraphNodeSets :
         \E eds \in SubsetsUpTo({edge \in GraphEdgesOf(nds) :
                                    GraphValid(nds, {edge})}, MaxGraphEdges) :
            /\ GraphValid(nds, eds)
            /\ nodes = SetToBag(nds)
            /\ edges = SetToBag(eds)
            /\ instanceCounters = CountersOf(nds)
    /\ clipboard = EmptyBag
    /\ instancesMap = InstancesMapOf(nodes)
    /\ dataConnections = DataConnectionsOf(edges)
    /\ pending = 0
    /\ exported = NotCalled
    /\ imported = NotCalled
    /\ stored = NoItem
    /\ loaded = NotCalled
    /\ ruleCall = NotCalled
    /\ ruleResult = NotCalled

\* documents handed to importFromJson that no export produced
AddressObject(ref, city) == JObject(ref, NoMeta, ("city" :> JString(city)))

UserObject(ref, name, address) ==
    JObject(ref, NoMeta, ("name" :> JString(name)) @@ ("address" :> address))

Documents ==
    {\* {"name": "Al", "address": {"city": "X"}}
     UserObject(<<1>>, "Al", AddressObject(<<2>>, "X")),
     \* two users whose address is the same object
     JArray(<<UserObject(<<1>>, "Al", AddressObject(<<3>>, "X")),
              UserObject(<<2>>, "Bo", AddressObject(<<3>>, "X"))>>),
     \* two users whose addresses are equal objects
     JArray(<<UserObject(<<1>>, "Al", AddressObject(<<3>>, "X")),
              UserObject(<<2>>, "Bo", AddressObject(<<4>>, "X"))>>),
     \* a user whose friends array holds the same user twice
     JObject(<<1>>, NoMeta,
             ("name" :> JString("Al")) @@
             ("friends" :> JArray(<<UserObject(<<2>>, "Bo", JNull),
                                    UserObject(<<2>>, "Bo", JNull)>>))),
     \* a nested object that matches no schema
     UserObject(<<1>>, "Al", JObject(<<2>>, NoMeta, NoFields)),
     \* a user with an unmatched friend and a matched one
     JObject(<<1>>, NoMeta,
             ("name" :> JString("Al")) @@
             ("friends" :> JArray(<<JObject(<<2>>, NoMeta, NoFields),
                                    UserObject(<<3>>, "Bo", JNull)>>))),
     \* a user whose address is an object that matches the tag schema
     UserObject(<<1>>, "Al", JObject(<<2>>, NoMeta, ("label" :> JString("x")))),
     \* JSON values that are no object
     JNull, JNumber(1), JString("x"), JBoolean(TRUE), JArray(<<>>),
     JArray(<<JString("x"), JNull, JNumber(1)>>),
     \* a person with a property of an allOf entry
     JObject(<<1>>, NoMeta,
             ("nick" :> JString("Al")) @@ ("aliases" :> JArray(<<>>)) @@
             ("home" :> AddressObject(<<2>>, "X")))}

\* exportToJson(nodes, edges, schemas, options)
ExportJson ==
    \E includeMetadata \in BOOLEAN, rootInstanceId \in NodeIds(nodes) \cup {NoRoot} :
        /\ imported = NotCalled
        /\ exported' = [options |-> ExportOptions(includeMetadata, rootInstanceId),
                         json |-> exportToJson(nodes, edges,
                                      ExportOptions(includeMetadata, rootInstanceId))]
        /\ imported' = imported
        /\ UNCHANGED <<ruleCall, ruleResult, stored, loaded>>
        /\ UNCHANGED <<build, nodes, edges, clipboard, instanceCounters, instancesMap,
                       dataConnections, pending>>

\* importFromJson(data, schemas): the result is returned to the caller, the
\* counters of generateInstanceId move on.  A session imports once: a
\* document, or the value its last export returned.
ImportJson ==
    /\ imported = NotCalled
    /\ \E data \in IF exported = NotCalled THEN Documents ELSE {exported.json} :
          \E result \in {importFromJson(data, instanceCounters)} :
              /\ imported' = [data |-> data, threw |-> result.threw,
                              success |-> result.success,
                              nodes |-> result.nodes, edges |-> result.edges,
                              errors |-> result.errors,
                              instanceMap |-> result.instanceMap]
              /\ instanceCounters' = result.counters
    /\ UNCHANGED <<ruleCall, ruleResult, stored, loaded>>
    /\ UNCHANGED <<build, nodes, edges, clipboard, instancesMap, dataConnections,
                   pending, exported>>

NextCodec ==
    \/ ExportJson
    \/ ImportJson

SpecCodec == InitCodec /\ [][NextCodec]_vars

\* --------------------------------------------------------- builder storage
\* localStorage holds a text or nothing under STORAGE_KEY.  A text that
\* JSON.parse accepts carries the value it parses to.
EmptyText == [kind |-> "text", parses |-> FALSE, length |-> 0]

BrokenText == [kind |-> "text", parses |-> FALSE, length |-> 1]

JsonText(value) == [kind |-> "text", parses |-> TRUE, value |-> value]

\* a property a record does not have
Missing == [kind |-> "undefined"]

\* an id that is not of the form base-number
PlainId(text) == [plain |-> text]

\* !value for the values of this model: undefined, '' and null
Falsy(value) == value \in {Missing, PlainId(""), JNull}

\* a SerializedNode: {id, type, position, data: {schemaPath, instanceId, ...}}
SerializedNode(id, position, data) ==
    [kind |-> "object", id |-> id, position |-> position, data |-> data]

NodeData(schemaPath, instanceId) ==
    [kind |-> "object", schemaPath |-> schemaPath, instanceId |-> instanceId]

Position == [x |-> 0, y |-> 0]

\* a SerializedEdge: {id, source, target, sourceHandle, targetHandle}
SerializedEdge(id, source, target, sourceHandle) ==
    [kind |-> "object", id |-> id, source |-> source, target |-> target,
     sourceHandle |-> sourceHandle]

\* a BuilderState: {nodes, edges, lastSaved}
BuilderState(nds, eds) == [kind |-> "object", nodes |-> nds, edges |-> eds]

\* what loadBuilderState returns and the item it leaves in localStorage
Loaded(state, item) == [state |-> state, stored |-> item]

\* the node check of loadBuilderState; reading a property of null throws, and
\* the catch block does what the check does
NodeRejected(node) ==
    \/ node = JNull
    \/ Falsy(node.id)
    \/ Falsy(node.position)
    \/ node.data = Missing
    \/ node.data.schemaPath = <<>>
    \/ Falsy(node.data.instanceId)

\* the edge check of loadBuilderState
EdgeRejected(edge) ==
    \/ edge = JNull
    \/ Falsy(edge.id)
    \/ Falsy(edge.source)
    \/ Falsy(edge.target)

\* !state || !Array.isArray(state.nodes) || !Array.isArray(state.edges)
StructureRejected(state) ==
    \/ state.kind # "object"
    \/ state.nodes.kind # "array"
    \/ state.edges.kind # "array"

\* loadBuilderState
loadBuilderState(item) ==
    IF item = NoItem \/ item = EmptyText THEN Loaded(JNull, item)
    ELSE IF ~item.parses THEN Loaded(JNull, clearBuilderState)
    ELSE IF StructureRejected(item.value) THEN Loaded(JNull, clearBuilderState)
    ELSE IF \E i \in 1..Len(item.value.nodes.items) : NodeRejected(item.value.nodes.items[i])
    THEN Loaded(JNull, clearBuilderState)
    ELSE IF \E i \in 1..Len(item.value.edges.items) : EdgeRejected(item.value.edges.items[i])
    THEN Loaded(JNull, clearBuilderState)
    ELSE Loaded(item.value, item)

\* the property names every object literal inherits from Object.prototype
ObjectPrototypeKeys == {"constructor"}

\* instanceId.match(/^(.+)-(\d+)$/)
IdMatches(instanceId) == "base" \in DOMAIN instanceId

\* !counters[baseName] || counter > counters[baseName], counters being an
\* object literal: an inherited property reads as a function, which is
\* truthy and compares as NaN
CounterReplaced(counters, baseName, counter) ==
    IF baseName \in DOMAIN counters
    THEN counters[baseName] = 0 \/ counter > counters[baseName]
    ELSE baseName \notin ObjectPrototypeKeys

\* extractCounterState: the loop over the nodes, `counters` being the object
\* built so far
RECURSIVE extractCounterState(_, _)
extractCounterState(nds, counters) ==
    IF nds = <<>> THEN counters
    ELSE extractCounterState(Tail(nds),
                             IF /\ IdMatches(Head(nds).data.instanceId)
                                /\ CounterReplaced(counters,
                                                   Head(nds).data.instanceId.base,
                                                   Head(nds).data.instanceId.n)
                             THEN (Head(nds).data.instanceId.base :>
                                      Head(nds).data.instanceId.n) @@ counters
                             ELSE counters)

\* setInstanceCounter for every entry of the extracted counters
SetCounters(extracted, counters) ==
    [b \in DOMAIN counters |-> IF b \in DOMAIN extracted THEN extracted[b] ELSE counters[b]]

\* restoreInstanceCounters(nodes, setInstanceCounter): the counter map it leaves
restoreInstanceCounters(nds, counters) ==
    SetCounters(extractCounterState(nds, <<>>), counters)

\* the nodes and edges the load effect hands to setNodes and setEdges
RestoredNodes(nds) ==
    [node \in {[id |-> nds[i].id, schemaPath |-> nds[i].data.schemaPath] : i \in 1..Len(nds)} |->
        Cardinality({i \in 1..Len(nds) :
                        [id |-> nds[i].id, schemaPath |-> nds[i].data.schemaPath] = node})]

RestoredEdges(eds) ==
    [edge \in {[source |-> eds[i].source, target |-> eds[i].target,
                sourceHandle |-> eds[i].sourceHandle] : i \in 1..Len(eds)} |->
        Cardinality({i \in 1..Len(eds) :
                        [source |-> eds[i].source, target |-> eds[i].target,
                         sourceHandle |-> eds[i].sourceHandle] = edge})]

\* the snapshots of the sessions: node records that pass the check, node
\* records that fail it in each of its ways, and the same for edges
NodeRecords ==
    {SerializedNode(InstanceId("user", 1), Position, NodeData(UserPath, InstanceId("user", 1))),
     SerializedNode(InstanceId("user", 2), Position, NodeData(UserPath, InstanceId("user", 2))),
     SerializedNode(InstanceId("address", 1), Position,
                    NodeData(AddressPath, InstanceId("address", 1))),
     SerializedNode(InstanceId("constructor", 1), Position,
                    NodeData(ConstructorPath, InstanceId("constructor", 1))),
     SerializedNode(PlainId("orphan"), Position, NodeData(UserPath, PlainId("orphan"))),
     SerializedNode(Missing, Position, NodeData(UserPath, InstanceId("user", 1))),
     SerializedNode(PlainId(""), Position, NodeData(UserPath, InstanceId("user", 1))),
     SerializedNode(InstanceId("user", 1), Missing, NodeData(UserPath, InstanceId("user", 1))),
     SerializedNode(InstanceId("user", 1), Position, NodeData(<<>>, InstanceId("user", 1))),
     SerializedNode(InstanceId("user", 1), Position, NodeData(UserPath, Missing)),
     SerializedNode(InstanceId("user", 1), Position, Missing),
     JNull}

EdgeRecords ==
    {SerializedEdge(PlainId("e1"), InstanceId("user", 1), InstanceId("address", 1), "address"),
     SerializedEdge(Missing, InstanceId("user", 1), InstanceId("address", 1), "address"),
     SerializedEdge(PlainId("e1"), Missing, InstanceId("address", 1), "address"),
     SerializedEdge(PlainId("e1"), InstanceId("user", 1), Missing, "address"),
     JNull}

SeqsUpTo(S, n) == UNION {[1..k -> S] : k \in 0..n}

StoredItems ==
    {NoItem, EmptyText, BrokenText, JsonText(JNull), JsonText(JNumber(1)),
     JsonText(BuilderState(Missing, JArray(<<>>))),
     JsonText(BuilderState(JArray(<<>>), Missing))}
    \cup {JsonText(BuilderState(JArray(nds), JArray(eds))) :
             nds \in SeqsUpTo(NodeRecords, MaxStoredNodes),
             eds \in SeqsUpTo(EdgeRecords, MaxStoredEdges)}

\* the schema paths generateInstanceId is called with after a load
GeneratePaths == {UserPath, AddressPath, ConstructorPath}

\* the page was opened (the counter map is empty), or the builder is mounted
\* again on a page whose counter map has entries
InitStorage ==
    /\ build = "connectionValidator.ts"
    /\ nodes = EmptyBag
    /\ edges = EmptyBag
    /\ clipboard = EmptyBag
    /\ instanceCounters \in {resetInstanceCounters,
                             [resetInstanceCounters EXCEPT !["user"] = MaxStoredCount]}
    /\ instancesMap = InstancesMapOf(EmptyBag)
    /\ dataConnections = DataConnectionsOf(EmptyBag)
    /\ pending = 0
    /\ exported = NotCalled
    /\ imported = NotCalled
    /\ stored \in StoredItems
    /\ loaded = NotCalled
    /\ ruleCall = NotCalled
    /\ ruleResult = NotCalled

\* the load effect of DataModelBuilder: loadBuilderState, and for a snapshot
\* with nodes restoreInstanceCounters, setNodes and setEdges
LoadSavedState ==
    /\ loaded = NotCalled
    /\ \E savedState \in {loadBuilderState(stored)} :
          /\ stored' = savedState.stored
          /\ IF savedState.state # JNull /\ Len(savedState.state.nodes.items) > 0
             THEN /\ instanceCounters' =
                       restoreInstanceCounters(savedState.state.nodes.items, instanceCounters)
                  /\ nodes' = RestoredNodes(savedState.state.nodes.items)
                  /\ edges' = RestoredEdges(savedState.state.edges.items)
                  /\ loaded' = [item |-> stored, state |-> savedState.state,
                                counters |-> extractCounterState(savedState.state.nodes.items, <<>>),
                                issued |-> {}]
             ELSE /\ UNCHANGED <<instanceCounters, nodes, edges>>
                  /\ loaded' = [item |-> stored, state |-> savedState.state,
                                counters |-> <<>>, issued |-> {}]
    /\ Rerender
    /\ UNCHANGED <<build, clipboard, exported, imported, ruleCall, ruleResult>>

\* a generateInstanceId call after the load
GenerateAfterLoad ==
    /\ loaded # NotCalled
    /\ Cardinality(loaded.issued) < MaxIssued
    /\ \E schemaPath \in GeneratePaths :
          \E g \in {generateInstanceId(instanceCounters, schemaPath)} :
              /\ loaded' = [loaded EXCEPT !.issued = @ \cup {g.id}]
              /\ instanceCounters' = g.counters
    /\ UNCHANGED <<build, nodes, edges, clipboard, instancesMap, dataConnections, pending,
                   exported, imported, stored, ruleCall, ruleResult>>

NextStorage ==
    \/ LoadSavedState
    \/ GenerateAfterLoad

SpecStorage == InitStorage /\ [][NextStorage]_vars

\* ----------------------------------------------------- rule extraction
\* the $refs of the schemas handed to getSchemaConnectionRules: targets that
\* are objects, array wrappers, primitive by content or by file name, or not
\* in the catalog, named so that the catalog holds them under the resolved
\* path or only under a key the resolved path ends with
RuleRefs ==
    {Ref(<<".", "address.schema.json">>),
     Ref(<<"schemas", "v1", "tag.schema.json">>),
     Ref(<<".", "code.schema.json">>),
     Ref(<<"schemas", "v1", "code.schema.json">>),
     Ref(<<".", "userId.schema.json">>),
     Ref(<<".", "addressList.schema.json">>),
     Ref(<<"schemas", "v1", "selfList.schema.json">>),
     Ref(<<".", "contact.schema.json">>),
     Ref(<<".", "missing.schema.json">>)}

\* the file names referenced as 'f' and as './f'
SiblingFiles == {"address.schema.json", "code.schema.json", "missing.schema.json"}

\* the paths of the schema that holds the properties: with and without a
\* leading '/', with and without a directory
BasePaths ==
    {<<"v1", "holder.schema.json">>, <<"", "v1", "holder.schema.json">>,
     <<"holder.schema.json">>, <<"", "holder.schema.json">>}

RequiredSets == {{}, {"direct"}, {"direct", "items", "pattern"}}

\* a schema with one property of each shape that names `ref`, and properties
\* that name the sibling `file` without and with './'
RuleSchema(ref, file, req) ==
    ObjectSchema(
        [direct      |-> PropDef("", ref, NoRef, <<>>),
         items       |-> PropDef("array", NoRef, ref, <<>>),
         pattern     |-> PropDef("object", NoRef, NoRef, <<ref>>),
         bare        |-> PRef(<<file>>),
         dotted      |-> PRef(<<".", file>>),
         bareItems   |-> PArrayOf(<<file>>),
         dottedItems |-> PArrayOf(<<".", file>>)],
        req)

InitRules ==
    /\ build = "connectionValidator.ts"
    /\ nodes = EmptyBag
    /\ edges = EmptyBag
    /\ clipboard = EmptyBag
    /\ instanceCounters = resetInstanceCounters
    /\ instancesMap = InstancesMapOf(EmptyBag)
    /\ dataConnections = DataConnectionsOf(EmptyBag)
    /\ pending = 0
    /\ exported = NotCalled
    /\ imported = NotCalled
    /\ stored = NoItem
    /\ loaded = NotCalled
    /\ ruleCall \in {[ref |-> ref, file |-> file, schema |-> RuleSchema(ref, file, req),
                      schemaPath |-> schemaPath, withCatalog |-> withCatalog] :
                        ref \in RuleRefs, file \in SiblingFiles, req \in RequiredSets,
                        schemaPath \in BasePaths, withCatalog \in BOOLEAN}
    /\ ruleResult = NotCalled

\* getSchemaConnectionRules(schema, schemaPath, schemas?) is called, and the
\* validator resolves the two sibling refs with resolveRefPath
ExtractRules ==
    /\ ruleResult = NotCalled
    /\ ruleResult' =
          [rules |-> getSchemaConnectionRules(ruleCall.schema, ruleCall.schemaPath,
                                              ruleCall.withCatalog),
           bare |-> resolveRefPath(Ref(<<ruleCall.file>>), ruleCall.schemaPath),
           dotted |-> resolveRefPath(Ref(<<".", ruleCall.file>>), ruleCall.schemaPath)]
    /\ UNCHANGED <<build, nodes, edges, clipboard, instanceCounters, instancesMap,
                   dataConnections, pending, exported, imported, stored, loaded, ruleCall>>

NextRules == ExtractRules

SpecRules == InitRules /\ [][NextRules]_vars

\* ------------------------------------------------------------- properties
\* the property names of each schema of the catalog
SchemaHandles == [k \in DOMAIN schemas |-> DOMAIN getSchemaProperties(schemas[k])]

\* the handles a proposal from id may name: every property of its schema, a
\* property of the user schema, and the missing handle
HandlesOf(id) ==
    IF id \in DOMAIN instancesMap
    THEN SchemaHandles[instancesMap[id].schemaPath] \cup {"address", ""}
    ELSE {"address", ""}

\* the ids a proposal may name: the instances, and an id that is no instance
AllIds == NodeIds(nodes) \cup {GhostId}

\* the rules the imported validator reads for a schema of the catalog
ImportedRules(schemaPath) ==
    IF build = "part_005" THEN CatalogRules[TRUE][schemaPath]
    ELSE CatalogRules[FALSE][schemaPath]

\* whether the imported validator holds property p of instance id to one target
IsOne(id, p) ==
    /\ id \in DOMAIN instancesMap
    /\ \E rule \in ImportedRules(instancesMap[id].schemaPath) :
           rule.propertyPath = p /\ rule.cardinality = "one"

\* the connections that leave instance id on property p, counted with
\* multiplicity
ConnectionsOn(id, p) ==
    BagCardinality(BagFilter(edges, {edge \in BagToSet(edges) : edge.source = id /\ edge.sourceHandle = p}))

Edge(s, p, t) == [source |-> s, target |-> t, sourceHandle |-> p]

HasEdge(s, p, t) == BagIn(Edge(s, p, t), edges)

User1 == InstanceId("user", 1)

User2 == InstanceId("user", 2)

Address1 == InstanceId("address", 1)

Address2 == InstanceId("address", 2)

\* what the imported validator answers to a proposal on the rendered canvas
Answer(s, t, p) == ImportedValidateConnection(s, t, p, dataConnections, instancesMap)

\* what the imported getValidTargets answers on the rendered canvas
Targets(s, p) == ImportedGetValidTargets(s, p, instancesMap, dataConnections)

\* C1: on the canvas reached by proposals that each passed validateConnection,
\* deletions of connections and deletions of instances, every instance has at
\* most one connection on every property that its rule holds to cardinality
\* 'one'.  onConnect validates against the connections of the last render.
C1_Cardinality ==
    \A id \in NodeIds(nodes) :
        \A p \in HandlesOf(id) : IsOne(id, p) => ConnectionsOn(id, p) <= 1

\* C2: when several proposals are handled before the validator's snapshot of
\* the connections is refreshed, at most one connection results for one source
\* and one 'one'-cardinality property, and at most one for one exact triple.
C2_AtomicValidateThenApply ==
    /\ \A edge \in BagToSet(edges) :
           IsOne(edge.source, edge.sourceHandle)
               => ConnectionsOn(edge.source, edge.sourceHandle) = 1
    /\ \A edge \in BagToSet(edges) : CopiesIn(edge, edges) = 1

\* C3: every connection's source and target are instances on the canvas, so a
\* deleted instance leaves no connection behind that names it.
C3_NoDangling ==
    \A edge \in BagToSet(edges) :
        edge.source \in NodeIds(nodes) /\ edge.target \in NodeIds(nodes)

\* user-1 was created and deleted; the connection of user-2 is still there
C3_Witness ==
    /\ instanceCounters["user"] = 2
    /\ User1 \notin NodeIds(nodes)
    /\ HasEdge(User2, "address", Address1)

\* C4: no (sourceId, targetId, propertyPath) triple is on the canvas twice,
\* and the validator refuses to propose again any triple that is on it, for
\* 'one' and for 'many' rules.
C4_NoDuplicates ==
    \A edge \in BagToSet(edges) :
        /\ CopiesIn(edge, edges) = 1
        /\ ~Answer(edge.source, edge.target, edge.sourceHandle).valid

\* a 'many' connection is on the canvas and proposing it again is refused as
\* a duplicate
C4_Witness ==
    /\ HasEdge(User1, "friends", User2)
    /\ ~IsOne(User1, "friends")
    /\ Answer(User1, User2, "friends").reason = "Duplicate"

C6_RejectedChangesNothing ==
    \A s \in AllIds, t \in AllIds :
        \A p \in HandlesOf(s) :
            LET r == Answer(s, t, p)
            IN ~r.valid =>
                 /\ ~r.threw => r.reason # ""
                 /\ onConnectGraph(s, t, p) = Graph(nodes, edges)

\* a canvas with a connection on which a proposal is refused for its target
C6_Witness ==
    /\ HasEdge(User1, "address", Address1)
    /\ Answer(Address1, User1, "city").reason = "NoRule"
    /\ Answer(User1, Address1, "friends").reason = "WrongTarget"

\* C7: while s is connected on a 'one' property p, the proposal of another
\* instance t2 that fits p is refused with the one-to-one reason, and once the
\* connection is deleted the same proposal is accepted; a t2 that does not fit
\* p is refused before and after.
C7_ReplaceSequence ==
    \A edge \in BagToSet(edges), t2 \in NodeIds(nodes) :
        LET s == edge.source
            p == edge.sourceHandle
            deleted == DataConnectionsOf(DeleteHoveredEdge(EdgeId(edge)))
        IN (IsOne(s, p) /\ t2 # s)
           => (Answer(s, t2, p).reason = "OneToOne"
                 <=> ImportedValidateConnection(s, t2, p, deleted, instancesMap).valid)

\* user-1 is connected to address-1 on 'address', and address-2 is refused
\* with the one-to-one reason
C7_Witness ==
    /\ HasEdge(User1, "address", Address1)
    /\ Address2 \in NodeIds(nodes)
    /\ Answer(User1, Address2, "address").reason = "OneToOne"

\* C8: when the other checks pass, the validator the canvas imports accepts a
\* proposal exactly when the target instance's schemaPath is in the resolved
\* targets of the rule of its property, the item schema of an array wrapper
\* and the branches of a union included.
C8_ResolvedTargetMembership ==
    \A s \in NodeIds(nodes), t \in NodeIds(nodes) :
        \A p \in HandlesOf(s), rule \in ImportedRules(instancesMap[s].schemaPath) :
            rule.propertyPath = p =>
            LET resolvedTargets == resolveTargetSchemaPath(rule.targetSchemaPath)
            IN (/\ resolvedTargets.ok
                /\ s # t
                /\ ConnectionsOn(s, p) = 0)
               => (Answer(s, t, p).valid
                     <=> Includes(resolvedTargets.paths, instancesMap[t].schemaPath))

\* C9: for every rule of every instance on the canvas, resolveTargetSchemaPath
\* returns (it does not exhaust the stack), its result has no path twice and
\* holds the path it started from.
C9_ResolvedTargetsDefined ==
    \A node \in BagToSet(nodes) :
        \A rule \in CatalogRules[TRUE][node.schemaPath] :
            LET resolvedTargets == resolveTargetSchemaPath(rule.targetSchemaPath)
            IN /\ resolvedTargets.ok
               /\ Includes(resolvedTargets.paths, rule.targetSchemaPath)
               /\ Cardinality(Range(resolvedTargets.paths)) = Len(resolvedTargets.paths)

\* C10: an id is in the result of getValidTargets exactly when
\* validateConnection accepts it as the target; the result never holds the
\* source, never holds a target already connected by the triple, and is empty
\* when the property is 'one' and connected.
C10_ValidTargetsAgree ==
    \A s \in AllIds :
        \A p \in HandlesOf(s) :
            LET targets == Targets(s, p)
                ids == IF targets.ok THEN targets.paths ELSE {}
            IN /\ \A t \in AllIds : t \in ids <=> Answer(s, t, p).valid
               /\ \A t \in ids : t # s /\ ~HasEdge(s, p, t)
               /\ (IsOne(s, p) /\ ConnectionsOn(s, p) > 0) => ids = {}

\* user-1 is connected to user-2 on 'friends' and to address-1 on 'address':
\* no target is left for user-1 on either property, and user-1 is the one
\* valid target of user-2 on 'friends'
C10_Witness ==
    /\ HasEdge(User1, "friends", User2)
    /\ HasEdge(User1, "address", Address1)
    /\ Targets(User1, "friends") = Returned({})
    /\ Targets(User1, "address") = Returned({})
    /\ Targets(User2, "friends") = Returned({User1})
    /\ Targets(User2, "address") = Returned({Address1})

\* what the imported getValidSources answers on the rendered canvas
Sources(t) == ImportedGetValidSources(t, instancesMap, dataConnections)

\* C11: an id s is in the result of getValidSources for target t exactly when
\* s is not t and validateConnection accepts the proposal from s to t on some
\* property of s.
C11_ValidSourcesInverse ==
    \A t \in AllIds :
        LET sources == Sources(t)
            ids == IF sources.ok THEN sources.paths ELSE {}
        IN \A s \in AllIds :
               s \in ids <=> (s # t /\ \E p \in HandlesOf(s) : Answer(s, t, p).valid)

\* what the imported getConnectableProperties answers on the rendered canvas
Connectable(s, t) == ImportedGetConnectableProperties(s, t, instancesMap, dataConnections)

\* C28: for every pair of instances s and t a property p is in
\* getConnectableProperties(s, t) exactly when validateConnection(s, t, p)
\* answers valid, also when the rule of p targets an array wrapper or a union
\* and t's schema is the item or branch schema.
C28_ConnectableAgrees ==
    \A s \in AllIds :
        \A t \in AllIds :
            \A p \in HandlesOf(s) :
                p \in Connectable(s, t) <=> Answer(s, t, p).valid

\* the same for the revision whose validateConnection compares the rule's
\* target with the schema path of t
C28_ExactRevision ==
    build = "connectionValidator.ts" => C28_ConnectableAgrees

\* user-1 has its address and a friend: 'address' is connectable to no
\* address and 'friends' only to users that are not connected yet
C28_ExactWitness ==
    /\ build = "connectionValidator.ts"
    /\ HasEdge(User1, "address", Address1)
    /\ HasEdge(User2, "friends", User1)
    /\ Connectable(User1, Address1) = {}
    /\ Connectable(User2, User1) = {"friend"}
    /\ Connectable(User1, User2) = {"friend", "friends"}

\* ---------------------------------------------------- properties of the codec
\* the objects of a JSON value, nested ones included
RECURSIVE ObjectsIn(_)
ObjectsIn(value) ==
    IF value.kind = "object"
    THEN {value} \cup UNION {ObjectsIn(value.fields[k]) : k \in DOMAIN value.fields}
    ELSE IF value.kind = "array"
    THEN UNION {ObjectsIn(value.items[i]) : i \in 1..Len(value.items)}
    ELSE {}

\* an export was made, and with metadata: every object names its instance
ExportedWithMetadata ==
    /\ exported # NotCalled
    /\ exported.options.includeMetadata

\* some object of the value was built for an instance of `above`, or for the
\* instance of an object it is nested in
RECURSIVE RepeatsOnPath(_, _)
RepeatsOnPath(value, above) ==
    IF value.kind = "object"
    THEN \/ value.meta.instanceId \in above
         \/ \E k \in DOMAIN value.fields :
                RepeatsOnPath(value.fields[k], above \cup {value.meta.instanceId})
    ELSE IF value.kind = "array"
    THEN \E i \in 1..Len(value.items) : RepeatsOnPath(value.items[i], above)
    ELSE FALSE

\* the validator of part_005 and the codec read the same rule for property p
SameRule(schemaPath, p) ==
    \A c \in {"one", "many"} :
        (\E r \in CodecRules(schemaPath) : r.propertyPath = p /\ r.cardinality = c)
        <=> (\E r \in getConnectionRulesForSchema(schemas[schemaPath], schemaPath) :
                 r.propertyPath = p /\ r.cardinality = c)

\* C12: for the schema of every instance and every property of it, the codec
\* (export and import) holds the property to be a reference of cardinality c
\* exactly when the validator's rule list has a rule of cardinality c for it.
C12_OneRuleModel ==
    \A node \in BagToSet(nodes) :
        \A p \in DOMAIN getSchemaProperties(schemas[node.schemaPath]) :
            SameRule(node.schemaPath, p)

\* C13: exportToJson returns on every graph, cyclic ones included, and in
\* what it returns no instance is built inside its own object: where a
\* connection leads back, the 'one' property is null and the array lacks the
\* member.
C13_ExportCycleSafe ==
    ExportedWithMetadata => ~RepeatsOnPath(exported.json, {})

\* user-1 and user-2 are each other's friend ('one'); both are exported as
\* roots, and the friend of the friend is null
C13_Witness ==
    /\ HasEdge(User1, "friend", User2)
    /\ HasEdge(User2, "friend", User1)
    /\ ExportedWithMetadata
    /\ exported.json.kind = "array"
    /\ Len(exported.json.items) = 2
    /\ \A i \in 1..2 :
          /\ exported.json.items[i].fields["friend"].kind = "object"
          /\ exported.json.items[i].fields["friend"].fields["friend"] = JNull

\* the top-level objects of an export made without rootInstanceId
TopLevel(json) == IF json.kind = "array" THEN json.items ELSE <<json>>

\* the instances no connection leads to
WithoutIncoming == {node.id : node \in BagToSet(nodes)} \ {edge.target : edge \in BagToSet(edges)}

\* an export of the whole graph was made, with metadata
ExportedAll == ExportedWithMetadata /\ exported.options.rootInstanceId = NoRoot

\* the instances the top-level objects were built for
TopLevelInstances == {TopLevel(exported.json)[i].meta.instanceId : i \in 1..Len(TopLevel(exported.json))}

\* C14: exportToJson without rootInstanceId returns one top-level object per
\* instance without an incoming connection, and when the graph has instances
\* and each has an incoming connection, one top-level object per instance.
C14_ExportRoots ==
    ExportedAll =>
        LET expected == IF WithoutIncoming # {} THEN WithoutIncoming
                        ELSE {node.id : node \in BagToSet(nodes)}
        IN /\ Len(TopLevel(exported.json)) = Cardinality(expected)
           /\ TopLevelInstances = expected

\* three users in a cycle of 'one' connections: no instance is a root, and
\* three top-level objects are exported
C14_Witness ==
    /\ ExportedAll
    /\ BagCardinality(nodes) = 3
    /\ WithoutIncoming = {}
    /\ Len(TopLevel(exported.json)) = 3

\* the instances that are an end of some connection
Connected == {edge.source : edge \in BagToSet(edges)} \cup {edge.target : edge \in BagToSet(edges)}

\* the graph is connection cycles and instances without any connection: each
\* connected instance has one connection out and one connection in
CyclePlusIsolated ==
    /\ Connected # {}
    /\ \A id \in Connected :
          /\ Cardinality({edge \in BagToSet(edges) : edge.source = id}) = 1
          /\ Cardinality({edge \in BagToSet(edges) : edge.target = id}) = 1

\* C15: on a graph made of one connection cycle plus isolated instances,
\* exportToJson without rootInstanceId exports every instance, the members of
\* the cycle included, as a top-level object.
C15_CyclePlusIsolated ==
    (ExportedAll /\ CyclePlusIsolated) =>
        TopLevelInstances = {node.id : node \in BagToSet(nodes)}

\* the connections into T from properties the codec holds to be 'many'
IncomingMany(T) ==
    {edge \in BagToSet(edges) :
        /\ edge.target = T
        /\ \E node \in BagToSet(nodes) :
              /\ node.id = edge.source
              /\ \E r \in CodecRules(node.schemaPath) :
                    r.propertyPath = edge.sourceHandle /\ r.cardinality = "many"}

\* in every object of the value, the array of a 'many' property holds an object
\* for each connected instance that is the target of two 'many' connections and
\* is neither the object's instance nor one of `above`
RECURSIVE ManyMembersBuilt(_, _)
ManyMembersBuilt(value, above) ==
    IF value.kind = "object"
    THEN LET path == above \cup {value.meta.instanceId}
         IN /\ \A edge \in BagToSet(edges) :
                  (/\ edge.source = value.meta.instanceId
                   /\ edge \in IncomingMany(edge.target)
                   /\ Cardinality(IncomingMany(edge.target)) >= 2
                   /\ edge.target \notin path
                   /\ edge.sourceHandle \in DOMAIN value.fields)
                  => \E i \in 1..Len(value.fields[edge.sourceHandle].items) :
                         value.fields[edge.sourceHandle].items[i].meta.instanceId = edge.target
            /\ \A k \in DOMAIN value.fields : ManyMembersBuilt(value.fields[k], path)
    ELSE IF value.kind = "array"
    THEN \A i \in 1..Len(value.items) : ManyMembersBuilt(value.items[i], above)
    ELSE TRUE

\* C16: in an export, an instance T that is the target of 'many' connections
\* in two different arrays, and that is not an ancestor of the instance being
\* built, is a built object in each of those arrays.
C16_SharedArrayMembers ==
    ExportedWithMetadata => ManyMembersBuilt(exported.json, {})

\* the objects of the export that were built for an instance
InstanceObjects == {object \in ObjectsIn(exported.json) : object.meta # NoMeta}

\* the node an object of the export was built for
NodeOf(object) == CHOOSE node \in BagToSet(nodes) : node.id = object.meta.instanceId

\* the object has one key for each effective property of its schema; a
\* reference property holds an object, null or an array, any other property
\* the stored value or the default of its definition
CoversEffectiveProperties(object) ==
    LET effective == getSchemaProperties(schemas[object.meta.schemaPath])
    IN /\ DOMAIN object.fields = DOMAIN effective
       /\ \A p \in DOMAIN object.fields \cap DOMAIN effective :
             IF FindRule(CodecRules(object.meta.schemaPath), p) # {}
             THEN object.fields[p].kind \in {"object", "null", "array"}
             ELSE object.fields[p] =
                      IF p \in DOMAIN NodeValues(NodeOf(object))
                      THEN NodeValues(NodeOf(object))[p]
                      ELSE getDefaultValue(effective[p], Append(object.ref, p))

\* C17: the object buildObjectFromInstance builds for an instance has one key
\* for each effective property of its schema (schema.properties and the
\* properties of every allOf entry), holding the connected object, null or an
\* array for a reference property and the stored value or the schema default
\* for any other.
C17_ExportEffectiveProperties ==
    ExportedWithMetadata => \A object \in InstanceObjects : CoversEffectiveProperties(object)

\* the objects of the imported document that importFromJson made an instance of
ImportedObjects == {object \in ObjectsIn(imported.data) : object.ref \in DOMAIN imported.instanceMap}

\* the top-level objects of the imported document
RootObjects ==
    IF imported.data.kind = "array"
    THEN {imported.data.items[i] : i \in {j \in 1..Len(imported.data.items) : IsObject(imported.data.items[j])}}
    ELSE IF IsObject(imported.data) THEN {imported.data}
    ELSE {}

\* the objects nested in `object` under reference rule r: the object of a
\* 'one' property, the objects of the array of a 'many' property
NestedUnder(object, r) ==
    IF r.propertyPath \notin DOMAIN object.fields THEN {}
    ELSE LET nestedValue == object.fields[r.propertyPath]
         IN IF r.cardinality = "one" /\ IsObject(nestedValue) THEN {nestedValue}
            ELSE IF r.cardinality = "many" /\ nestedValue.kind = "array"
            THEN {nestedValue.items[i] : i \in {j \in 1..Len(nestedValue.items) : IsObject(nestedValue.items[j])}}
            ELSE {}

\* the positions of the imported nodes with this id
NodesWithId(id) == {i \in 1..Len(imported.nodes) : imported.nodes[i].id = id}

\* the positions of the imported edges with this triple
EdgesWith(source, propertyPath, target) ==
    {i \in 1..Len(imported.edges) : imported.edges[i] = createEdge(source, target, propertyPath)}

\* the import made one instance of the object, of the schema it matches, with
\* the keys that are no reference property as values, and one child and one
\* connection per matched object nested under a reference rule
SplitsReferencesFromValues(object) ==
    LET schemaPath == findMatchingSchema(object)
        id == imported.instanceMap[object.ref]
        refProps == {r.propertyPath : r \in CodecRules(schemaPath)}
    IN /\ schemaPath # <<>>
       /\ Cardinality(NodesWithId(id)) = 1
       /\ \A i \in NodesWithId(id) :
             /\ imported.nodes[i].schemaPath = schemaPath
             /\ DOMAIN imported.nodes[i].values = DOMAIN object.fields \ refProps
             /\ \A key \in DOMAIN imported.nodes[i].values :
                   imported.nodes[i].values[key] = object.fields[key]
       /\ \A r \in CodecRules(schemaPath) :
             \A child \in NestedUnder(object, r) :
                 findMatchingSchema(child) # <<>> =>
                     /\ child.ref \in DOMAIN imported.instanceMap
                     /\ Cardinality(EdgesWith(id, r.propertyPath, imported.instanceMap[child.ref])) = 1

\* C18: for every object matched to a schema, importFromJson creates exactly
\* one instance whose values are exactly the object's keys that are no
\* reference-rule property, and for each nested object under a reference rule
\* one child instance and one connection; it creates no other instance and
\* no other connection.
C18_ImportSplit ==
    imported # NotCalled =>
        /\ \A root \in RootObjects :
              findMatchingSchema(root) # <<>> => root.ref \in DOMAIN imported.instanceMap
        /\ \A object \in ImportedObjects : SplitsReferencesFromValues(object)
        /\ Len(imported.nodes) = Cardinality(ImportedObjects)
        /\ \A i \in 1..Len(imported.edges) :
              \E object \in ImportedObjects :
                  \E r \in CodecRules(findMatchingSchema(object)) :
                      \E child \in NestedUnder(object, r) :
                          /\ child.ref \in DOMAIN imported.instanceMap
                          /\ i \in EdgesWith(imported.instanceMap[object.ref], r.propertyPath,
                                             imported.instanceMap[child.ref])

\* {name, address: {city}} imported into an empty graph: the instances user-1
\* and address-1, one connection on address, and the user's values are {name}
C18_Witness ==
    /\ imported # NotCalled
    /\ imported.data = UserObject(<<1>>, "Al", AddressObject(<<2>>, "X"))
    /\ BagCardinality(nodes) = 0
    /\ Len(imported.nodes) = 2
    /\ imported.nodes[1].id = InstanceId("user", 1)
    /\ imported.nodes[1].values = ("name" :> JString("Al"))
    /\ imported.nodes[2].id = InstanceId("address", 1)
    /\ imported.edges = <<createEdge(InstanceId("user", 1), InstanceId("address", 1), "address")>>

\* every rule of the schema resolves its target: no $ref of it runs into a
\* cycle of wrapping schemas
CatalogResolves(schemaPath) ==
    \A rule \in CatalogRules[TRUE][schemaPath] :
        resolveTargetSchemaPath(rule.targetSchemaPath).ok

\* the export of the whole graph, with metadata, was imported
RoundTrip ==
    /\ ExportedAll
    /\ imported # NotCalled
    /\ \A node \in BagToSet(nodes) : CatalogResolves(node.schemaPath)

\* C19: importFromJson of the exportToJson of a validated graph, made with
\* includeMetadata, yields as many instances per schema path and as many
\* connections per property path as the graph has.
C19_RoundTrip ==
    RoundTrip =>
        /\ \A schemaPath \in DOMAIN schemas :
              Cardinality({i \in 1..Len(imported.nodes) : imported.nodes[i].schemaPath = schemaPath})
                  = Cardinality({node \in BagToSet(nodes) : node.schemaPath = schemaPath})
        /\ \A p \in {"address", "friend", "friends", "home"} :
              Cardinality({i \in 1..Len(imported.edges) : imported.edges[i].sourceHandle = p})
                  = Cardinality({edge \in BagToSet(edges) : edge.sourceHandle = p})

\* the (parent, property) paths on which the document nests the object
PathsTo(object) ==
    UNION {{<<parent.ref, r.propertyPath>> :
               r \in {q \in CodecRules(findMatchingSchema(parent)) :
                         object \in NestedUnder(parent, q)}} :
           parent \in ImportedObjects}

\* the positions of the imported edges into this instance
IncomingEdges(id) == {i \in 1..Len(imported.edges) : imported.edges[i].target = id}

\* C20: in one importFromJson call an object reached on several paths gets
\* exactly one instance, with one incoming connection per distinct (parent,
\* property) path, and two distinct objects, equal or not, get two instances.
C20_ImportSharesByIdentity ==
    imported # NotCalled =>
        /\ Len(imported.nodes) = Cardinality({object.ref : object \in ImportedObjects})
        /\ \A object \in ImportedObjects :
              /\ Cardinality(NodesWithId(imported.instanceMap[object.ref])) = 1
              /\ Cardinality(IncomingEdges(imported.instanceMap[object.ref]))
                     = Cardinality(PathsTo(object))
        /\ \A a \in ImportedObjects, b \in ImportedObjects :
              a.ref # b.ref => imported.instanceMap[a.ref] # imported.instanceMap[b.ref]

\* two users whose address is the same object: three instances, and the one
\* address has the two users' connections
C20_Witness ==
    /\ imported # NotCalled
    /\ imported.data = JArray(<<UserObject(<<1>>, "Al", AddressObject(<<3>>, "X")), UserObject(<<2>>, "Bo", AddressObject(<<3>>, "X"))>>)
    /\ Len(imported.nodes) = 3
    /\ Len(imported.edges) = 2
    /\ imported.edges[1].target = imported.edges[2].target
    /\ imported.edges[1].source # imported.edges[2].source

\* the value is an object that matches no schema, or an array where an object
\* is expected
Unmatched(value) ==
    \/ value.kind = "array"
    \/ IsObject(value) /\ findMatchingSchema(value) = <<>>

\* the places of the imported document where createNodeFromData was called
\* for a value without schema: roots, and values nested under a reference
\* rule of an object that was imported
ErrorSites ==
    {<<"root", i>> : i \in {j \in 1..(IF imported.data.kind = "array" THEN Len(imported.data.items) ELSE 0) :
                                IsObject(imported.data.items[j]) /\ Unmatched(imported.data.items[j])}}
    \cup {<<"root", 0>> : x \in {v \in {imported.data} : v.kind # "array" /\ (~IsObject(v) \/ Unmatched(v))}}
    \cup UNION {UNION {{<<object.ref, r.propertyPath, 0>> :
                           v \in {w \in {object.fields[r.propertyPath]} :
                                    r.cardinality = "one" /\ IsObject(w) /\ Unmatched(w)}}
                       \cup {<<object.ref, r.propertyPath, i>> :
                               i \in {j \in 1..(IF r.cardinality = "many" /\ object.fields[r.propertyPath].kind = "array"
                                                THEN Len(object.fields[r.propertyPath].items) ELSE 0) :
                                         /\ object.fields[r.propertyPath].items[j].kind \in {"object", "array"}
                                         /\ Unmatched(object.fields[r.propertyPath].items[j])}} :
                       r \in {q \in CodecRules(findMatchingSchema(object)) :
                                q.propertyPath \in DOMAIN object.fields}} :
                object \in ImportedObjects}

\* importFromJson returned an ImportResult
ImportReturned == imported # NotCalled /\ ~imported.threw

\* C21: importFromJson returns success = false exactly when an object failed
\* to match a schema; each such object adds one error, gets no instance and
\* no connection, and the matched objects next to it and above it are still
\* returned.
C21_ImportPartialFailure ==
    ImportReturned =>
        /\ imported.success <=> imported.errors = 0
        /\ imported.errors = Cardinality(ErrorSites)
        /\ \A object \in ObjectsIn(imported.data) :
              Unmatched(object) => object.ref \notin DOMAIN imported.instanceMap
        /\ \A i \in 1..Len(imported.edges) :
              /\ NodesWithId(imported.edges[i].source) # {}
              /\ NodesWithId(imported.edges[i].target) # {}
        /\ \A root \in RootObjects : ~Unmatched(root) => root.ref \in DOMAIN imported.instanceMap
        /\ \A object \in ImportedObjects :
              \A r \in CodecRules(findMatchingSchema(object)) :
                  \A child \in NestedUnder(object, r) :
                      ~Unmatched(child) => child.ref \in DOMAIN imported.instanceMap

\* a user whose friends are an object without schema and a user: one error,
\* success = false, and the two users and their connection are returned
C21_Witness ==
    /\ ImportReturned
    /\ imported.data.kind = "object"
    /\ "friends" \in DOMAIN imported.data.fields
    /\ Len(imported.data.fields["friends"].items) = 2
    /\ Unmatched(imported.data.fields["friends"].items[1])
    /\ ~imported.success
    /\ imported.errors = 1
    /\ Len(imported.nodes) = 2
    /\ Len(imported.edges) = 1

\* C22: for every JSON value passed as data importFromJson returns an
\* ImportResult; it never propagates an exception.
C22_ImportTotal ==
    imported # NotCalled => ~imported.threw

\* the nodes a step added to the canvas
AddedNodes == nodes' (-) nodes

\* the step called generateInstanceId (or not at all) and did not reset: for
\* every base name the ids of the added nodes are the next numbers after the
\* counter, once each, and the counter ends at the last of them
NamesInSequence ==
    \A b \in BaseNames :
        /\ instanceCounters'[b] >= instanceCounters[b]
        /\ {node.id.n : node \in {x \in BagToSet(AddedNodes) : x.id.base = b}} =
              (instanceCounters[b] + 1)..instanceCounters'[b]
        /\ \A node \in BagToSet(AddedNodes) :
              /\ AddedNodes[node] = 1
              /\ node.id.base = BaseName(Last(node.schemaPath))

\* no two nodes of the canvas share an id, and every id on the canvas was
\* issued since the last reset
DistinctIds ==
    /\ \A node \in BagToSet(nodes) :
          /\ nodes[node] = 1
          /\ node.id.n \in 1..instanceCounters[node.id.base]
    /\ \A n1, n2 \in BagToSet(nodes) : n1.id = n2.id => n1 = n2

\* C23: between two resets the k-th generateInstanceId call for base name b
\* returns b-k, counters of other base names are untouched and no id is
\* returned twice; after any sequence of drop, paste, delete and clear all
\* instances on the canvas have distinct ids and the id of a deleted instance
\* is not issued again before a clear.
C23_CollisionFreeNaming ==
    /\ []DistinctIds
    /\ [][\/ nodes' = EmptyBag /\ instanceCounters' = resetInstanceCounters
          \/ NamesInSequence]_vars

\* user-1 was deleted and the next user dropped or pasted is user-2
C23_Witness ==
    /\ InstanceId("user", 2) \in NodeIds(nodes)
    /\ InstanceId("user", 1) \notin NodeIds(nodes)
    /\ instanceCounters["user"] = 2
    /\ clipboard # EmptyBag

\* the schema path of the returned instance with this id
ImportedSchemaOf(id) ==
    imported.nodes[CHOOSE i \in 1..Len(imported.nodes) : imported.nodes[i].id = id].schemaPath

\* the rules validateConnection reads for the source of a returned connection
ValidatorRulesOf(edge) ==
    {r \in getConnectionRulesForSchema(schemas[ImportedSchemaOf(edge.source)],
                                       ImportedSchemaOf(edge.source)) :
        r.propertyPath = edge.sourceHandle}

\* the returned connection names a rule of its source, joins two instances,
\* and its target's schema is among the resolved targets of the rule
TargetAdmitted(edge) ==
    /\ ValidatorRulesOf(edge) # {}
    /\ \A r \in ValidatorRulesOf(edge) :
          /\ resolveTargetSchemaPath(r.targetSchemaPath).ok
          /\ Includes(resolveTargetSchemaPath(r.targetSchemaPath).paths,
                      ImportedSchemaOf(edge.target))

\* a 'one' property of the source has no second connection
WithinCardinality(edge) ==
    \A r \in ValidatorRulesOf(edge) :
        r.cardinality = "one" =>
            Cardinality({i \in 1..Len(imported.edges) :
                            /\ imported.edges[i].source = edge.source
                            /\ imported.edges[i].sourceHandle = edge.sourceHandle}) = 1

\* C29: every connection importFromJson returns would pass the checks of
\* validateConnection against the returned instances: its property has a rule
\* on the source's schema, the target's matched schema is in the resolved
\* targets of that rule, source and target differ, a 'one' property has at
\* most one outgoing connection, and no triple occurs twice.
C29_ImportedGraphValid ==
    ImportReturned =>
        \A i \in 1..Len(imported.edges) :
            /\ TargetAdmitted(imported.edges[i])
            /\ imported.edges[i].source # imported.edges[i].target
            /\ WithinCardinality(imported.edges[i])
            /\ \A j \in 1..Len(imported.edges) :
                  imported.edges[i] = imported.edges[j] => i = j

\* the same without the test of the target's schema
C29_ShapeValid ==
    ImportReturned =>
        \A i \in 1..Len(imported.edges) :
            /\ ValidatorRulesOf(imported.edges[i]) # {}
            /\ imported.edges[i].source # imported.edges[i].target
            /\ WithinCardinality(imported.edges[i])
            /\ \A j \in 1..Len(imported.edges) :
                  imported.edges[i] = imported.edges[j] => i = j

\* a user with an address was imported: one connection, from the user to the
\* address, on the 'one' property 'address'
C29_ShapeWitness ==
    /\ ImportReturned
    /\ Len(imported.nodes) = 2
    /\ Len(imported.edges) = 1
    /\ ImportedSchemaOf(imported.edges[1].source) = SimpleUserPath
    /\ ImportedSchemaOf(imported.edges[1].target) = AddressPath
    /\ imported.edges[1].sourceHandle = "address"

\* ------------------------------------------------ properties of the storage
\* the load effect restored a snapshot
Restored ==
    /\ loaded # NotCalled
    /\ loaded.state # JNull
    /\ Len(loaded.state.nodes.items) > 0

\* the instance ids of the restored snapshot
SnapshotIds ==
    {loaded.state.nodes.items[i].data.instanceId : i \in 1..Len(loaded.state.nodes.items)}

\* the numbers of the snapshot ids of the form base-number with this base
NumbersOf(baseName) ==
    {id.n : id \in {x \in SnapshotIds : IdMatches(x) /\ x.base = baseName}}

\* extractCounterState gave each of these base names its highest number, and
\* no id issued since is an id of the snapshot
RestoreCollisionFree(baseNames) ==
    /\ \A b \in baseNames :
          NumbersOf(b) # {} =>
             /\ b \in DOMAIN loaded.counters
             /\ loaded.counters[b] \in NumbersOf(b)
             /\ \A n \in NumbersOf(b) : n <= loaded.counters[b]
    /\ \A b \in DOMAIN loaded.counters : NumbersOf(b) # {}
    /\ \A id \in loaded.issued : id.base \in baseNames => id \notin SnapshotIds

\* C24: extractCounterState maps each base name to the highest number n over
\* the saved ids of the form base-n, and every id generateInstanceId returns
\* after restoreInstanceCounters differs from every id of the restored
\* snapshot.
C24_RestoreCollisionFree ==
    Restored => RestoreCollisionFree(BaseNames)

\* the same for the base names that are no property of Object.prototype
C24_OwnBaseNames ==
    Restored => RestoreCollisionFree(BaseNames \ ObjectPrototypeKeys)

\* ids were issued for a base name whose restored counter was lowered and for
\* a base name of the snapshot
C24_OwnWitness ==
    /\ Restored
    /\ loaded.item.value.nodes.items[1].data.instanceId = InstanceId("user", 2)
    /\ InstanceId("user", 3) \in loaded.issued
    /\ InstanceId("address", 1) \in loaded.issued

\* the record of a snapshot has the properties the claim names
NodeComplete(node) ==
    /\ node # JNull
    /\ node.id # Missing
    /\ node.position # Missing
    /\ node.data # Missing
    /\ node.data.schemaPath # <<>>

EdgeComplete(edge) ==
    /\ edge # JNull
    /\ edge.id # Missing
    /\ edge.source # Missing
    /\ edge.target # Missing

\* the text parses to a snapshot with a nodes array and an edges array
IsSnapshot(item) ==
    /\ item.kind = "text"
    /\ item.parses
    /\ item.value.kind = "object"
    /\ item.value.nodes.kind = "array"
    /\ item.value.edges.kind = "array"

\* a record of the snapshot lacks a property
RecordFails(item) ==
    /\ IsSnapshot(item)
    /\ \/ \E i \in 1..Len(item.value.nodes.items) : ~NodeComplete(item.value.nodes.items[i])
       \/ \E i \in 1..Len(item.value.edges.items) : ~EdgeComplete(item.value.edges.items[i])

\* a snapshot is returned as it was stored and only when all its records are
\* complete; when a record fails or the text is one of `unparsable`, null is
\* returned and the item is removed
AllOrNothing(unparsable) ==
    loaded # NotCalled =>
        /\ loaded.state # JNull =>
              /\ IsSnapshot(loaded.item)
              /\ ~RecordFails(loaded.item)
              /\ loaded.state = loaded.item.value
              /\ stored = loaded.item
        /\ (RecordFails(loaded.item) \/ loaded.item \in unparsable) =>
              /\ loaded.state = JNull
              /\ stored = NoItem

\* C25: loadBuilderState returns the stored snapshot unchanged only if every
\* instance record has id, position and schemaPath and every connection record
\* has id, source and target; if a record fails or the stored text is not
\* valid JSON it returns null and removes the stored snapshot, and it never
\* returns a snapshot with the failing records filtered out.
C25_LoadAllOrNothing ==
    AllOrNothing({EmptyText, BrokenText})

\* the same for the texts that are not empty
C25_NonEmptyText ==
    AllOrNothing({BrokenText})

\* a snapshot with one complete and one incomplete node was loaded
C25_MixedWitness ==
    /\ loaded # NotCalled
    /\ IsSnapshot(loaded.item)
    /\ Len(loaded.item.value.nodes.items) = 2
    /\ NodeComplete(loaded.item.value.nodes.items[1])
    /\ ~NodeComplete(loaded.item.value.nodes.items[2])
    /\ loaded.state = JNull
    /\ stored = NoItem

\* ---------------------------------------- properties of the rule extraction
\* the catalog schema a path names: the schema stored under the path, or under
\* the first key the path ends with (or that ends with the path)
NamedSchemaKey(path) ==
    IF path \in DOMAIN schemas THEN path ELSE FindMatchingKey(path)

\* the path names a primitive schema: by the path heuristic, or, when the
\* catalog was supplied, by the content of the schema it names
NamesPrimitive(path, withCatalog) ==
    \/ isPrimitiveSchemaPath(path)
    \/ /\ withCatalog
       /\ NamedSchemaKey(path) # <<>>
       /\ isPrimitiveSchema(schemas[NamedSchemaKey(path)])

\* the rules returned for a property
RulesFor(propName) == {r \in ruleResult.rules : r.propertyPath = propName}

\* C26: getSchemaConnectionRules emits no rule whose target is a primitive
\* schema, by the path heuristic or by the content of the schema found in the
\* supplied catalog, and a direct $ref, an array items.$ref and a
\* patternProperties $ref that name the same target are filtered alike, also
\* when the target is found only through the suffix match.
C26_NoPrimitiveTargets ==
    ruleResult # NotCalled =>
        /\ \A r \in ruleResult.rules :
              ~NamesPrimitive(r.targetSchemaPath, ruleCall.withCatalog)
        /\ (RulesFor("direct") = {}) = (RulesFor("items") = {})
        /\ (RulesFor("direct") = {}) = (RulesFor("pattern") = {})

\* the catalog was not supplied, or it holds the schema under this very path,
\* or it holds no schema the path names
NeedsNoSuffixMatch(path) ==
    \/ ~ruleCall.withCatalog
    \/ path \in DOMAIN schemas
    \/ FindMatchingKey(path) = <<>>

\* the same for the targets that need no suffix match
C26_ExactTargets ==
    ruleResult # NotCalled =>
        /\ \A r \in ruleResult.rules :
              NeedsNoSuffixMatch(r.targetSchemaPath) =>
                  ~NamesPrimitive(r.targetSchemaPath, ruleCall.withCatalog)
        /\ NeedsNoSuffixMatch(ResolveMatch(ruleCall.schemaPath, ruleCall.ref.path)) =>
              /\ (RulesFor("direct") = {}) = (RulesFor("items") = {})
              /\ (RulesFor("direct") = {}) = (RulesFor("pattern") = {})

\* a ref to a string schema stored under the resolved path was filtered in
\* all three shapes
C26_ExactWitness ==
    /\ ruleResult # NotCalled
    /\ ruleCall.withCatalog
    /\ ruleCall.ref = Ref(<<".", "code.schema.json">>)
    /\ ruleCall.schemaPath = <<"v1", "holder.schema.json">>
    /\ RulesFor("direct") = {}
    /\ RulesFor("items") = {}
    /\ RulesFor("pattern") = {}

\* the catalog key of the schema the direct property references
DirectTarget == NamedSchemaKey(ResolveMatch(ruleCall.schemaPath, ruleCall.ref.path))

\* the schema has items.$ref directly or in an allOf entry
HasItemsRef(schema) ==
    \/ HasRef(schema.itemsRef)
    \/ \E i \in 1..Len(schema.allOf) : HasRef(schema.allOf[i].itemsRef)

\* the direct $ref of the call names a schema of the supplied catalog that is
\* not primitive
DirectRefToCatalogSchema ==
    /\ ruleResult # NotCalled
    /\ ruleCall.withCatalog
    /\ DirectTarget # <<>>
    /\ ~NamesPrimitive(ResolveMatch(ruleCall.schemaPath, ruleCall.ref.path), TRUE)

\* C27: for a property that is a direct $ref to a non-primitive schema found
\* in the catalog getSchemaConnectionRules emits exactly one rule; its target
\* is the referenced schema's own path, its cardinality is 'many' when that
\* schema has items.$ref directly or in an allOf entry and 'one' otherwise,
\* and it is required exactly when the property is in schema.required.
C27_ArrayWrapperRefs ==
    DirectRefToCatalogSchema =>
        RulesFor("direct") =
            {Rule("direct", DirectTarget,
                  IF HasItemsRef(schemas[DirectTarget]) THEN "many" ELSE "one",
                  "direct" \in ruleCall.schema.required)}

\* a required direct $ref to a wrapper whose items.$ref is in an allOf entry,
\* found through the suffix match
C27_Witness ==
    /\ DirectRefToCatalogSchema
    /\ DirectTarget = SelfListPath
    /\ ruleCall.ref.path[1] = "schemas"
    /\ "direct" \in ruleCall.schema.required
    /\ \E r \in RulesFor("direct") : r.cardinality = "many" /\ r.required

\* the targets of the rules returned for a property
TargetsFor(propName) == {r.targetSchemaPath : r \in RulesFor(propName)}

\* the file in the directory of the base path, with the leading '/' of the
\* base kept or dropped
SiblingPaths(basePath, file) ==
    {Front(basePath) \o <<file>>, NonEmptyParts(Front(basePath)) \o <<file>>}

\* 'f' and './f' resolve to the same path, the file in the directory of the
\* base path, in the validator's resolver and in the rules of the extractor
SiblingsAgree ==
    /\ ruleResult.bare = ruleResult.dotted
    /\ ruleResult.bare \in SiblingPaths(ruleCall.schemaPath, ruleCall.file)
    /\ TargetsFor("bare") = TargetsFor("dotted")
    /\ TargetsFor("bareItems") = TargetsFor("dottedItems")
    /\ NamedSchemaKey(ruleResult.bare) = NamedSchemaKey(ruleResult.dotted)

\* C30: for every base schema path, with or without a leading '/' and with or
\* without a directory, and every file name f, the bare ref 'f' and './f'
\* resolve to the same path, the file f in the directory of the base path, so
\* both map to the same catalog key.
C30_SiblingResolution ==
    ruleResult # NotCalled => SiblingsAgree

\* the same for the base paths that have no directory after a leading '/'
C30_WithoutRootedDirectory ==
    (ruleResult # NotCalled /\ ruleCall.schemaPath # <<"", "v1", "holder.schema.json">>) =>
        SiblingsAgree

\* both forms of a sibling of v1/holder.schema.json gave v1/address.schema.json
C30_RelativeWitness ==
    /\ ruleResult # NotCalled
    /\ ruleCall.schemaPath = <<"v1", "holder.schema.json">>
    /\ ruleResult.bare = AddressPath
    /\ ruleResult.dotted = AddressPath
    /\ TargetsFor("bareItems") = {AddressPath}

====
